---- MODULE Spec2Model ----
(***************************************************************************)
(* Financial governance core of Project Chimera: the kill-switch state     *)
(* machine (chimera/governance/kill_switch.py), the wallet, CFO review and *)
(* commerce orchestrator (chimera/commerce/__init__.py), the optimistic    *)
(* concurrency pattern of tests/unit/test_occ.py and the asset ledger      *)
(* (skills/commerce_manager/asset_ledger.py).                              *)
(*                                                                         *)
(* Scheduling.  All concurrency in the repository is asyncio on a single   *)
(* event loop: a coroutine runs without interruption up to its next        *)
(* suspending await.  The only suspending awaits in the modelled code are  *)
(* the asyncio.sleep calls; "await self.get_balance()" awaits a coroutine  *)
(* that never suspends and so is no scheduling point.  Each action below   *)
(* is one such uninterrupted run.                                          *)
(*                                                                         *)
(* Numbers.  Money (Decimal) is modelled in whole currency units as        *)
(* integers.  Confidence scores are in hundredths (0.5 is 50), risk scores *)
(* of review_transaction in thousandths (0.8 is 800).                      *)
(***************************************************************************)
EXTENDS Integers, Sequences, FiniteSets, TLC

VARIABLES
    pause_flag,   \* KillSwitchProtocol.pause_flag : SystemPauseFlag
    ks_out,       \* outcome of the latest KillSwitchProtocol call (return / raise)
    now,          \* the clock read by datetime.utcnow() and time.time()
    wallet,       \* AutonomousWallet: balance, locked_funds, transactions
    budget,       \* AgenticCommerce.budget : Budget
    task,         \* per asyncio task: the call it runs, its position and its result
    calls,        \* number of calls started so far (bounds the exploration)
    spendable0,   \* spendable balance when the gathered lock_funds calls were created
    state,        \* test_occ.py: the shared InfluencerState (version, current_trend);
                  \* asset_ledger.py: the AssetLedger entry
    agent         \* test_occ.py: per writer, the version it read and its update_state call;
                  \* asset_ledger.py: the outcome of the latest call on the ledger

vars == <<pause_flag, ks_out, now, wallet, budget, task, calls, spendable0, state, agent>>

ksVars       == <<pause_flag, ks_out>>
commerceVars == <<wallet, budget, task, calls, spendable0>>
occVars      == <<state, agent>>

-----------------------------------------------------------------------------
(* Bounds of the exploration *)

MaxClock == 2
MaxCalls == 3

\* Optional[...] values: None, or the value
None == "None"
NoTime == <<>>
Time(t) == <<t>>

Max(a, b) == IF a >= b THEN a ELSE b
Min(a, b) == IF a <= b THEN a ELSE b

-----------------------------------------------------------------------------
(* Kill switch: chimera/governance/kill_switch.py *)

SystemState == {"active", "paused", "emergency_halt"}
PanicReason == {"low_confidence", "market_crash", "budget_anomaly", "security_breach"}

\* KillSwitchProtocol.__init__(min_confidence = 0.5), in hundredths
min_confidence == 50
\* check_market_crash: volatility > 50
VolatilityCeiling == 50

\* inputs of the kill-switch calls
ConfidenceScores == {30, 49, 50, 51}
Volatilities     == {49, 50, 51, 75}
HaltDetails      == {"Test emergency halt", "manual stop"}

\* SystemPauseFlag()
SystemPauseFlag ==
    [is_paused |-> FALSE, state |-> "active", reason |-> None,
     details |-> None, paused_at |-> NoTime]

\* A call that returned normally / raised PanicException(reason, details, confidence_score)
Returned(op, arg) ==
    [op |-> op, arg |-> arg, raised |-> FALSE, reason |-> None, details |-> None,
     confidence_score |-> None]
PanicException(op, arg, reason, details, confidence_score) ==
    [op |-> op, arg |-> arg, raised |-> TRUE, reason |-> reason, details |-> details,
     confidence_score |-> confidence_score]

NoCall == Returned("none", <<>>)

\* KillSwitchProtocol.check_confidence: raises, and writes nothing
CheckConfidence(confidence_score) ==
    /\ ks_out' = IF confidence_score < min_confidence
                 THEN PanicException("check_confidence", <<confidence_score>>,
                                     "low_confidence",
                                     <<"Confidence", confidence_score, "below", min_confidence>>,
                                     <<confidence_score>>)
                 ELSE Returned("check_confidence", <<confidence_score>>)
    /\ UNCHANGED <<pause_flag, now, commerceVars, occVars>>

\* KillSwitchProtocol.check_market_crash: raises, and writes nothing
CheckMarketCrash(volatility) ==
    /\ ks_out' = IF volatility > VolatilityCeiling
                 THEN PanicException("check_market_crash", <<volatility>>,
                                     "market_crash",
                                     <<"Volatility", volatility, "exceeds threshold">>,
                                     None)
                 ELSE Returned("check_market_crash", <<volatility>>)
    /\ UNCHANGED <<pause_flag, now, commerceVars, occVars>>

\* KillSwitchProtocol.trigger_halt that leaves is_paused as it was
TriggerHaltNotPaused(reason, details) ==
    /\ pause_flag' = [pause_flag EXCEPT !.state = "emergency_halt", !.reason = reason,
                                        !.details = details, !.paused_at = Time(now)]
    /\ ks_out' = PanicException("trigger_halt", <<reason, details>>, reason, details, None)
    /\ UNCHANGED <<now, commerceVars, occVars>>

\* KillSwitchProtocol.trigger_halt whose bookkeeping forgets the free-text details
TriggerHaltNoDetails(reason, details) ==
    /\ pause_flag' = [is_paused |-> TRUE, state |-> "emergency_halt", reason |-> reason,
                      details |-> None, paused_at |-> Time(now)]
    /\ ks_out' = PanicException("trigger_halt", <<reason, details>>, reason, details, None)
    /\ UNCHANGED <<now, commerceVars, occVars>>

\* KillSwitchProtocol.trigger_halt that toggles: a second call resumes the system
TriggerHaltToggle(reason, details) ==
    /\ pause_flag' = IF pause_flag.state = "emergency_halt"
                     THEN SystemPauseFlag
                     ELSE [is_paused |-> TRUE, state |-> "emergency_halt",
                           reason |-> reason, details |-> details,
                           paused_at |-> Time(now)]
    /\ ks_out' = PanicException("trigger_halt", <<reason, details>>, reason, details, None)
    /\ UNCHANGED <<now, commerceVars, occVars>>

\* KillSwitchProtocol.trigger_halt: a synchronous method (no await), so its five
\* assignments are one step of the event loop; it always raises.
TriggerHalt(reason, details) ==
    /\ pause_flag' = [is_paused |-> TRUE, state |-> "emergency_halt", reason |-> reason,
                      details |-> details, paused_at |-> Time(now)]
    /\ ks_out' = PanicException("trigger_halt", <<reason, details>>, reason, details, None)
    /\ UNCHANGED <<now, commerceVars, occVars>>

\* datetime.utcnow() / time.time() advance between steps
Tick ==
    /\ now < MaxClock
    /\ now' = now + 1
    /\ UNCHANGED <<ksVars, commerceVars, occVars>>

-----------------------------------------------------------------------------
(* Python floats (IEEE-754 binary64), for the scores and ratios the CFO computes.
   A float x is the pair <<d, n>> of integers with
       x = d / FloatScale + n / (FloatScale * 2^FloatBits),
   d its value in ten-thousandths and n the distance, in units of
   1 / (FloatScale * 2^FloatBits), between x and that decimal.  Every binary64 value
   of magnitude at least 2^-10 (and 0) has such a pair, and |n| stays far below
   2^FloatBits, so pairs compare lexicographically. *)

FloatScale == 10000
FloatBits  == 62
\* binary64 has 53 significant bits: in [2^k, 2^(k+1)) the floats are the multiples of
\* 2^(k-52), which is FloatScale * 2^(k + FloatBits - 52) units
MantissaBits == 52

FloatZero == <<0, 0>>
FloatNeg(x) == <<-x[1], -x[2]>>
FloatLess(x, y) == x[1] < y[1] \/ (x[1] = y[1] /\ x[2] < y[2])
FloatLeq(x, y) == ~FloatLess(y, x)
FloatMin(x, y) == IF FloatLess(y, x) THEN y ELSE x
FloatMax(x, y) == IF FloatLess(x, y) THEN y ELSE x

\* 2^e modulo m for 40 <= e <= 70 and m <= 10000, without forming 2^e
Pow2Mod(e, m) == ((((2^20 % m) * (2^20 % m)) % m) * (2^(e - 40) % m)) % m

\* (d * 2^FloatBits + n) modulo FloatScale * 2^j
UnitsMod(x, j) ==
    ((2^j) * (((x[1] % FloatScale) * Pow2Mod(FloatBits - j, FloatScale)) % FloatScale)
     + x[2]) % (FloatScale * 2^j)

\* x >= 2^(j + MantissaBits - FloatBits), for x > 0
AtLeastPow2(x, j) ==
    \/ x[1] * 2^(FloatBits - MantissaBits) > FloatScale * 2^j
    \/ (x[1] * 2^(FloatBits - MantissaBits) = FloatScale * 2^j /\ x[2] >= 0)

\* The multiple of ulp nearest to the exact value x, ties to the even multiple:
\* r is x modulo ulp and r2 is x modulo 2 * ulp
Nearest(x, ulp, r, r2) ==
    IF 2 * r < ulp \/ (2 * r = ulp /\ r2 < ulp)
    THEN <<x[1], x[2] - r>>
    ELSE <<x[1], x[2] - r + ulp>>

\* Round to nearest, ties to even, of the exact positive value x that lies in
\* [2^(j + MantissaBits - FloatBits), twice that)
RoundInBinade(x, j) == Nearest(x, FloatScale * 2^j, UnitsMod(x, j), UnitsMod(x, j + 1))

\* Round to nearest, ties to even, of the exact positive value x
RoundPositive(x) ==
    IF ~AtLeastPow2(x, 0) THEN x
    ELSE CHOOSE y \in {RoundInBinade(x, j) :
                          j \in {k \in 0..(FloatBits - MantissaBits + 2) :
                                    AtLeastPow2(x, k) /\ ~AtLeastPow2(x, k + 1)}} : TRUE

\* The binary64 value nearest to the exact value x: rounding is symmetric in the sign
RoundValue(x) ==
    IF x = FloatZero THEN x
    ELSE CHOOSE y \in {IF FloatLess(x, FloatZero) THEN FloatNeg(m) ELSE m :
                          m \in {RoundPositive(IF FloatLess(x, FloatZero)
                                               THEN FloatNeg(x) ELSE x)}} : TRUE

\* The same, for an expression x that is evaluated once
Round(x) == CHOOSE y \in {RoundValue(v) : v \in {x}} : TRUE

\* The float of a decimal in ten-thousandths: a literal, or the quotient of an
\* integer by a power of ten
Float(d) == Round(<<d, 0>>)
\* The float literals 0.00, 0.01, ..., 1.00
Hundredths == [h \in 0..100 |-> Float(h * 100)]
\* float(amount) / 1000 for the whole amounts of -1000 .. 5000, and
\* float(cost) / 10000 for the costs 0, 100, ..., 20000
Thousandths == [a \in -1000..5000 |-> Float(a * 10)]
CostRatio   == [c \in {100 * k : k \in 0..200} |-> Float(c)]
\* x + y and x - y
FloatAdd(x, y) == Round(<<x[1] + y[1], x[2] + y[2]>>)
FloatSub(x, y) == FloatAdd(x, FloatNeg(y))
\* x / 2^k: exact in binary64; the pair divides exactly when d is a multiple of 2^k
\* (n is a multiple of 16, because every float here is a multiple of FloatScale units)
FloatOverPow2(x, k) == <<x[1] \div 2^k, x[2] \div 2^k>>

-----------------------------------------------------------------------------
(* CFO review: chimera/commerce/__init__.py, class CFOAgent *)

\* CFOAgent.budget_limits["daily"]
DailyLimit == 1000
\* CFOAgent.category_limits.get(category, Decimal('100'))
DefaultCategoryLimit == 100
\* review_transaction: approved only if risk_score < 0.8, in hundredths
RiskCutoff == 80

\* A purpose text is modelled by the set of keywords that occur in its lower-cased
\* form ("word in purpose_lower" is a substring test on each keyword).
Keywords == {"compute", "cpu", "gpu", "processing", "storage", "database", "backup",
             "api", "service", "integration", "marketing", "advertising", "promotion",
             "research", "analysis", "study"}

\* CFOAgent._categorize_transaction: the first matching bucket wins
_categorize_transaction(purpose) ==
    IF purpose \cap {"compute", "cpu", "gpu", "processing"} # {} THEN "compute"
    ELSE IF purpose \cap {"storage", "database", "backup"} # {} THEN "storage"
    ELSE IF purpose \cap {"api", "service", "integration"} # {} THEN "api_calls"
    ELSE IF purpose \cap {"marketing", "advertising", "promotion"} # {} THEN "marketing"
    ELSE IF purpose \cap {"research", "analysis", "study"} # {} THEN "research"
    ELSE "other"

\* category_limits without the per-category ceilings: only the daily limit is left
category_limits_daily_only(category) == DailyLimit

\* CFOAgent.category_limits, with the .get default
category_limits(category) ==
    CASE category = "compute"   -> 500
      [] category = "storage"   -> 200
      [] category = "api_calls" -> 300
      [] category = "marketing" -> 1000
      [] category = "research"  -> 500
      [] OTHER                  -> DefaultCategoryLimit

\* _calculate_risk_level that puts a score on a boundary into the lower bucket
_calculate_risk_level_inclusive(risk_score) ==
    IF FloatLeq(risk_score, Hundredths[20]) THEN "very_low"
    ELSE IF FloatLeq(risk_score, Hundredths[40]) THEN "low"
    ELSE IF FloatLeq(risk_score, Hundredths[60]) THEN "medium"
    ELSE IF FloatLeq(risk_score, Hundredths[80]) THEN "high"
    ELSE "very_high"

\* CFOAgent._calculate_risk_level, on a float score
_calculate_risk_level(risk_score) ==
    IF FloatLess(risk_score, Hundredths[20]) THEN "very_low"
    ELSE IF FloatLess(risk_score, Hundredths[40]) THEN "low"
    ELSE IF FloatLess(risk_score, Hundredths[60]) THEN "medium"
    ELSE IF FloatLess(risk_score, Hundredths[80]) THEN "high"
    ELSE "very_high"

\* _get_approval_reason that reports only the first failing condition
_get_approval_reason_first_only(approved, within_budget, within_category_limit, risk_score) ==
    IF approved THEN <<"Transaction approved within all limits">>
    ELSE IF ~within_budget THEN <<"Transaction rejected", "exceeds daily budget limit">>
    ELSE IF ~within_category_limit
         THEN <<"Transaction rejected", "exceeds category limit">>
    ELSE <<"Transaction rejected", "risk score too high">>

\* CFOAgent._get_approval_reason: the reasons in the order they are appended
_get_approval_reason(approved, within_budget, within_category_limit, risk_score) ==
    IF approved THEN <<"Transaction approved within all limits">>
    ELSE <<"Transaction rejected">>
         \o (IF ~within_budget THEN <<"exceeds daily budget limit">> ELSE <<>>)
         \o (IF ~within_category_limit THEN <<"exceeds category limit">> ELSE <<>>)
         \o (IF FloatLeq(Hundredths[RiskCutoff], risk_score)
             THEN <<"risk score too high">> ELSE <<>>)

\* The record review_transaction returns
Approval(approved, amount, recipient, purpose, risk_score, within_budget, within_category_limit) ==
    [approved |-> approved, amount |-> amount, recipient |-> recipient,
     purpose |-> purpose, category |-> _categorize_transaction(purpose),
     risk_score |-> risk_score, within_budget |-> within_budget,
     within_category_limit |-> within_category_limit,
     reason |-> _get_approval_reason(approved, within_budget, within_category_limit,
                                     risk_score)]

\* review_transaction that approves a risk score equal to the cutoff
review_transaction_cutoff_inclusive(amount, recipient, purpose) ==
    Approval(/\ amount <= DailyLimit
             /\ amount <= category_limits(_categorize_transaction(purpose))
             /\ FloatLeq(FloatMin(Thousandths[amount], Hundredths[100]),
                         Hundredths[RiskCutoff]),
             amount, recipient, purpose,
             FloatMin(Thousandths[amount], Hundredths[100]),
             amount <= DailyLimit,
             amount <= category_limits(_categorize_transaction(purpose)))

\* CFOAgent.review_transaction
review_transaction(amount, recipient, purpose) ==
    Approval(/\ amount <= DailyLimit
             /\ amount <= category_limits(_categorize_transaction(purpose))
             /\ FloatLess(FloatMin(Thousandths[amount], Hundredths[100]),
                          Hundredths[RiskCutoff]),
             amount, recipient, purpose,
             FloatMin(Thousandths[amount], Hundredths[100]),
             amount <= DailyLimit,
             amount <= category_limits(_categorize_transaction(purpose)))

-----------------------------------------------------------------------------
(* Wallet: chimera/commerce/__init__.py, class AutonomousWallet *)

TaskIds == {"t1", "t2"}

\* A task that runs nothing.  Besides the call's arguments and locals a task records
\* what the properties refer to: which call of the run it is, the kill-switch state
\* and locked_funds when the call started, how often it invoked settlement and what
\* the settlement step did.
IdleTask ==
    [op |-> "none", call |-> 0, pc |-> "idle", amount |-> 0, purpose |-> {},
     entered |-> "active",
     approval |-> <<>>, transaction |-> <<>>, result |-> <<>>,
     opportunity |-> <<>>, locked0 |-> 0, settlements |-> 0, settlement |-> "none"]

\* AutonomousWallet.get_balance that forgets the reservations
get_balance_ignoring_locks(w) == w.balance

\* AutonomousWallet.get_balance: the spendable balance
get_balance(w) == w.balance - w.locked_funds

\* AutonomousWallet.__init__
AutonomousWallet(initial_balance) ==
    [balance |-> initial_balance, locked_funds |-> 0, transactions |-> <<>>]

\* asyncio.create_task / gather of wallet.lock_funds(amount, purpose)
CallLockFunds(t, amount) ==
    /\ task[t].pc = "idle"
    /\ calls < MaxCalls
    /\ calls' = calls + 1
    /\ task' = [task EXCEPT ![t] = [IdleTask EXCEPT !.op = "lock_funds",
                                                   !.call = calls + 1,
                                                   !.pc = "lock_funds",
                                                   !.amount = amount]]
    /\ UNCHANGED <<ksVars, now, wallet, budget, spendable0, occVars>>

\* lock_funds that refuses an amount equal to the spendable balance
LockFundsStrict(t) ==
    /\ task[t].pc = "lock_funds"
    /\ LET amount == task[t].amount
           available == get_balance(wallet)
       IN  IF amount < available
           THEN /\ wallet' = [wallet EXCEPT !.locked_funds = @ + amount]
                /\ task' = [task EXCEPT ![t].pc = "idle", ![t].result = <<TRUE>>]
           ELSE /\ wallet' = wallet
                /\ task' = [task EXCEPT ![t].pc = "idle", ![t].result = <<FALSE>>]
    /\ UNCHANGED <<ksVars, now, budget, calls, spendable0, occVars>>

\* AutonomousWallet.lock_funds: check and reservation are one uninterrupted run
LockFunds(t) ==
    /\ task[t].pc = "lock_funds"
    /\ LET amount == task[t].amount
           available == get_balance(wallet)
       IN  IF amount <= available
           THEN /\ wallet' = [wallet EXCEPT !.locked_funds = @ + amount]
                /\ task' = [task EXCEPT ![t].pc = "idle", ![t].result = <<TRUE>>]
           ELSE /\ wallet' = wallet
                /\ task' = [task EXCEPT ![t].pc = "idle", ![t].result = <<FALSE>>]
    /\ UNCHANGED <<ksVars, now, budget, calls, spendable0, occVars>>

\* AutonomousWallet.unlock_funds
UnlockFunds(t, amount) ==
    /\ task[t].pc = "idle"
    /\ calls < MaxCalls
    /\ calls' = calls + 1
    /\ wallet' = [wallet EXCEPT !.locked_funds = Max(0, @ - amount)]
    /\ task' = [task EXCEPT ![t] = [IdleTask EXCEPT !.op = "unlock_funds",
                                                   !.call = calls + 1,
                                                   !.amount = amount,
                                                   !.result = <<None>>]]
    /\ UNCHANGED <<ksVars, now, budget, spendable0, occVars>>

\* class Transaction, as built by the caller of wallet.execute_transaction
Transaction(id, amount, recipient, purpose, timestamp, risk_level) ==
    [id |-> id, amount |-> amount, recipient |-> recipient, purpose |-> purpose,
     timestamp |-> timestamp, status |-> "pending", risk_level |-> risk_level]

\* execute_transaction that debits before it compares the amount with the balance
WalletSettleDebitsFirst(w, transaction) ==
    LET debited == [w EXCEPT !.balance = @ - transaction.amount]
    IN  IF transaction.amount <= get_balance(w)
        THEN [wallet |-> [debited EXCEPT !.transactions =
                             Append(@, [transaction EXCEPT !.status = "executed"])],
              transaction |-> [transaction EXCEPT !.status = "executed"],
              success |-> TRUE]
        ELSE [wallet |-> debited,
              transaction |-> [transaction EXCEPT !.status = "failed"],
              success |-> FALSE]

\* AutonomousWallet.execute_transaction after its asyncio.sleep: the balance check,
\* the debit and the append are one uninterrupted run.
\* Gives the wallet and the transaction afterwards and the value returned.
WalletSettle(w, transaction) ==
    IF transaction.amount <= get_balance(w)
    THEN [wallet |-> [w EXCEPT !.balance = @ - transaction.amount,
                               !.transactions =
                                   Append(@, [transaction EXCEPT !.status = "executed"])],
          transaction |-> [transaction EXCEPT !.status = "executed"],
          success |-> TRUE]
    ELSE [wallet |-> w,
          transaction |-> [transaction EXCEPT !.status = "failed"],
          success |-> FALSE]

\* AutonomousWallet.execute_transaction when a statement of its try block raises an
\* Exception (PanicException is one): "except Exception" marks the transaction failed
\* and returns False; nothing is re-raised.
WalletSettleRaised(w, transaction) ==
    [wallet |-> w,
     transaction |-> [transaction EXCEPT !.status = "failed"],
     success |-> FALSE]

\* wallet.execute_transaction(transaction) called directly: up to asyncio.sleep(0.1)
CallWalletExecute(t, amount) ==
    /\ task[t].pc = "idle"
    /\ calls < MaxCalls
    /\ calls' = calls + 1
    /\ task' = [task EXCEPT ![t] =
                   [IdleTask EXCEPT !.op = "wallet.execute_transaction",
                                    !.call = calls + 1,
                                    !.pc = "sleep",
                                    !.amount = amount,
                                    !.transaction =
                                        <<Transaction(<<"tx", calls>>, amount, "recipient",
                                                      {}, now, "very_low")>>]]
    /\ UNCHANGED <<ksVars, now, wallet, budget, spendable0, occVars>>

\* wallet.execute_transaction(transaction) called directly: after the sleep
WalletExecute(t) ==
    /\ task[t].pc = "sleep"
    /\ task[t].op = "wallet.execute_transaction"
    /\ LET r == WalletSettle(wallet, task[t].transaction[1])
       IN  /\ wallet' = r.wallet
           /\ task' = [task EXCEPT ![t].pc = "idle",
                                   ![t].transaction = <<r.transaction>>,
                                   ![t].result = <<r.success>>]
    /\ UNCHANGED <<ksVars, now, budget, calls, spendable0, occVars>>

-----------------------------------------------------------------------------
(* Risk and ROI engine: CFOAgent.analyze_opportunity and its helpers *)

\* roi >= k, where analyze_opportunity and its helpers test roi > k
RoiAtLeast(opportunity, k) ==
    IF opportunity.cost > 0
    THEN (opportunity.expected_revenue - opportunity.cost) * 100 >= k * opportunity.cost
    ELSE 0 >= k

\* An opportunity: cost and expected_revenue in currency units; market_risk,
\* complexity and urgency in hundredths.  roi = (expected_revenue - cost) / cost * 100
\* when cost > 0, else 0; "roi > k" is decided exactly by cross-multiplication.
RoiAbove(opportunity, k) ==
    IF opportunity.cost > 0
    THEN (opportunity.expected_revenue - opportunity.cost) * 100 > k * opportunity.cost
    ELSE 0 > k
RoiBelow(opportunity, k) ==
    IF opportunity.cost > 0
    THEN (opportunity.expected_revenue - opportunity.cost) * 100 < k * opportunity.cost
    ELSE 0 < k

\* analyze_opportunity: the four risk factors.  The caller gives market_risk,
\* complexity and urgency as floats (here: hundredths); the fourth is
\* min(float(cost) / 10000, 1.0), with cost a multiple of 100.
risk_factors(opportunity) ==
    [market_volatility     |-> Hundredths[opportunity.market_risk],
     execution_complexity  |-> Hundredths[opportunity.complexity],
     time_sensitivity      |-> Hundredths[opportunity.urgency],
     resource_requirements |-> FloatMin(CostRatio[opportunity.cost], Hundredths[100])]

\* analyze_opportunity: overall_risk = sum(risk_factors.values()) / len(risk_factors).
\* sum() adds the values to 0 one after the other in the dict's order, rounding each
\* partial sum; len(risk_factors) is 4.
Mean4(f) ==
    FloatOverPow2(FloatAdd(FloatAdd(FloatAdd(FloatAdd(FloatZero, f.market_volatility),
                                             f.execution_complexity),
                                    f.time_sensitivity),
                           f.resource_requirements), 2)
overall_risk(opportunity) == Mean4(risk_factors(opportunity))

\* _make_recommendation that looks at the ROI only
_make_recommendation_any_risk(opportunity, risk_level) ==
    IF RoiAbove(opportunity, 50) THEN "STRONG_BUY"
    ELSE IF RoiAbove(opportunity, 20) THEN "BUY"
    ELSE IF RoiAbove(opportunity, 10) THEN "HOLD"
    ELSE "AVOID"

\* CFOAgent._make_recommendation
_make_recommendation(opportunity, risk_level) ==
    IF RoiAbove(opportunity, 50) /\ risk_level \in {"very_low", "low"} THEN "STRONG_BUY"
    ELSE IF RoiAbove(opportunity, 20) /\ risk_level \in {"very_low", "low", "medium"}
         THEN "BUY"
    ELSE IF RoiAbove(opportunity, 10) /\ risk_level \in {"very_low", "low"} THEN "HOLD"
    ELSE "AVOID"

\* _calculate_confidence without the clamp
_calculate_confidence_unclamped(opportunity, risk_level) ==
    FloatAdd(IF RoiAbove(opportunity, 30) THEN FloatAdd(Hundredths[70], Hundredths[20])
             ELSE IF RoiBelow(opportunity, 5)
             THEN FloatSub(Hundredths[70], Hundredths[20])
             ELSE Hundredths[70],
             CASE risk_level = "very_low"  -> Hundredths[20]
               [] risk_level = "low"       -> Hundredths[10]
               [] risk_level = "medium"    -> Hundredths[0]
               [] risk_level = "high"      -> FloatNeg(Hundredths[10])
               [] risk_level = "very_high" -> FloatNeg(Hundredths[20]))

\* CFOAgent._calculate_confidence: float additions, then the clamp
_calculate_confidence(opportunity, risk_level) ==
    LET base_confidence == Hundredths[70]
        roi_adjusted == IF RoiAbove(opportunity, 30)
                        THEN FloatAdd(base_confidence, Hundredths[20])
                        ELSE IF RoiBelow(opportunity, 5)
                        THEN FloatSub(base_confidence, Hundredths[20])
                        ELSE base_confidence
        risk_adjustment == CASE risk_level = "very_low"  -> Hundredths[20]
                             [] risk_level = "low"       -> Hundredths[10]
                             [] risk_level = "medium"    -> Hundredths[0]
                             [] risk_level = "high"      -> FloatNeg(Hundredths[10])
                             [] risk_level = "very_high" -> FloatNeg(Hundredths[20])
    IN  FloatMax(Hundredths[10],
                 FloatMin(Hundredths[95], FloatAdd(roi_adjusted, risk_adjustment)))

\* CFOAgent._calculate_max_exposure
_calculate_max_exposure(risk_level) ==
    CASE risk_level = "very_low"  -> 10000
      [] risk_level = "low"       -> 5000
      [] risk_level = "medium"    -> 2000
      [] risk_level = "high"      -> 500
      [] risk_level = "very_high" -> 100

\* analyze_opportunity: the dict it returns, for the risk level it computed
Analysis(opportunity, risk_level) ==
    [cost |-> opportunity.cost,
     expected_revenue |-> opportunity.expected_revenue,
     risk_level |-> risk_level,
     risk_factors |-> risk_factors(opportunity),
     recommendation |-> _make_recommendation(opportunity, risk_level),
     confidence |-> _calculate_confidence(opportunity, risk_level)]

\* CFOAgent.analyze_opportunity
analyze_opportunity(opportunity) ==
    Analysis(opportunity, _calculate_risk_level(overall_risk(opportunity)))

\* The opportunities given to make_economic_decision: cost and expected_revenue in
\* whole units, the three risk inputs in hundredths
Opportunities ==
    {[cost |-> 100, expected_revenue |-> 200, market_risk |-> 10, complexity |-> 20,
      urgency |-> 10],
     [cost |-> 400, expected_revenue |-> 410, market_risk |-> 90, complexity |-> 90,
      urgency |-> 90]}
RiskProfiles == {<<10, 10, 10>>, <<90, 10, 10>>, <<90, 90, 10>>, <<90, 90, 90>>}
DecisionOpportunities ==
    {[cost |-> c, expected_revenue |-> r, market_risk |-> p[1], complexity |-> p[2],
      urgency |-> p[3]] : c \in {100, 400}, r \in {125, 450, 700}, p \in RiskProfiles}
    \cup {[cost |-> 3000, expected_revenue |-> 4500, market_risk |-> 90,
            complexity |-> 90, urgency |-> 10]}

\* analyze_opportunity on those opportunities, computed once
Analyses == [o \in Opportunities \cup DecisionOpportunities |-> analyze_opportunity(o)]

\* evaluate_risk: the dict it returns, for the risk level of the analysis
RiskAssessment(risk_level) ==
    [risk_level |-> risk_level,
     approval_required |-> risk_level \in {"high", "very_high"},
     max_exposure |-> _calculate_max_exposure(risk_level)]

\* CFOAgent.evaluate_risk
evaluate_risk(opportunity) == RiskAssessment(Analyses[opportunity].risk_level)

-----------------------------------------------------------------------------
(* Commerce orchestrator: chimera/commerce/__init__.py, class AgenticCommerce *)

agent_id == "agent-456"

\* make_economic_decision: roi_analysis["confidence"] > 0.6, in hundredths
ConfidenceFloor == 60

\* AgenticCommerce.__init__: Budget(total_allocation = remaining = config["budget"])
Budget(allocation) ==
    [total_allocation |-> allocation, spent |-> 0, remaining |-> allocation,
     categories |-> <<>>]

\* _generate_reasoning that stops at the first reason it finds
_generate_reasoning_first_only(should_proceed, roi_analysis, risk_assessment, can_afford) ==
    IF should_proceed THEN <<"Proceeding with opportunity">>
    ELSE IF roi_analysis.recommendation \notin {"STRONG_BUY", "BUY"}
         THEN <<"Declining opportunity due to", "poor ROI">>
    ELSE IF risk_assessment.risk_level \in {"high", "very_high"}
         THEN <<"Declining opportunity due to", "high risk">>
    ELSE IF ~can_afford THEN <<"Declining opportunity due to", "insufficient budget">>
    ELSE <<"Declining opportunity due to", "low confidence">>

\* AgenticCommerce._generate_reasoning: the reasons in the order they are appended
_generate_reasoning(should_proceed, roi_analysis, risk_assessment, can_afford) ==
    IF should_proceed THEN <<"Proceeding with opportunity">>
    ELSE <<"Declining opportunity due to">>
         \o (IF roi_analysis.recommendation \notin {"STRONG_BUY", "BUY"}
             THEN <<"poor ROI">> ELSE <<>>)
         \o (IF risk_assessment.risk_level \in {"high", "very_high"}
             THEN <<"high risk">> ELSE <<>>)
         \o (IF ~can_afford THEN <<"insufficient budget">> ELSE <<>>)
         \o (IF FloatLeq(roi_analysis.confidence, Hundredths[ConfidenceFloor])
             THEN <<"low confidence">> ELSE <<>>)

\* make_economic_decision: the decision dict
DecisionDict(should_proceed, roi_analysis, risk_assessment, can_afford) ==
    [raised |-> FALSE,
     decision |-> IF should_proceed THEN "PROCEED" ELSE "DECLINE",
     recommendation |-> roi_analysis.recommendation,
     risk_level |-> risk_assessment.risk_level,
     max_exposure |-> risk_assessment.max_exposure,
     can_afford |-> can_afford,
     confidence |-> roi_analysis.confidence,
     reasoning |-> _generate_reasoning(should_proceed, roi_analysis,
                                       risk_assessment, can_afford)]

\* make_economic_decision: should_proceed without can_afford
should_proceed_ignoring_budget(roi_analysis, risk_assessment, can_afford) ==
    /\ roi_analysis.recommendation \in {"STRONG_BUY", "BUY"}
    /\ risk_assessment.risk_level \in {"very_low", "low", "medium"}
    /\ FloatLess(Hundredths[ConfidenceFloor], roi_analysis.confidence)

\* make_economic_decision: should_proceed
should_proceed(roi_analysis, risk_assessment, can_afford) ==
    /\ roi_analysis.recommendation \in {"STRONG_BUY", "BUY"}
    /\ risk_assessment.risk_level \in {"very_low", "low", "medium"}
    /\ can_afford
    /\ FloatLess(Hundredths[ConfidenceFloor], roi_analysis.confidence)

\* make_economic_decision that leaves can_afford out of should_proceed
DecisionIgnoringBudget(opportunity, b) ==
    DecisionDict(should_proceed_ignoring_budget(Analyses[opportunity],
                                                evaluate_risk(opportunity),
                                                opportunity.cost <= b.remaining),
                 Analyses[opportunity], evaluate_risk(opportunity),
                 opportunity.cost <= b.remaining)

\* The decision dict of make_economic_decision, for the budget it reads
Decision(opportunity, b) ==
    DecisionDict(should_proceed(Analyses[opportunity], evaluate_risk(opportunity),
                                opportunity.cost <= b.remaining),
                 Analyses[opportunity], evaluate_risk(opportunity),
                 opportunity.cost <= b.remaining)

\* AgenticCommerce.make_economic_decision: no suspending await, so one run; it reads
\* budget.remaining and writes nothing.  It does not consult the kill switch.
MakeEconomicDecision(t, opportunity) ==
    /\ task[t].pc = "idle"
    /\ calls < MaxCalls
    /\ calls' = calls + 1
    /\ task' = [task EXCEPT ![t] =
                   [IdleTask EXCEPT !.op = "make_economic_decision",
                                    !.call = calls + 1,
                                    !.amount = opportunity.cost,
                                    !.opportunity = <<opportunity>>,
                                    !.entered = pause_flag.state,
                                    !.result = <<Decision(opportunity, budget)>>]]
    /\ UNCHANGED <<ksVars, now, wallet, budget, spendable0, occVars>>

\* execute_transaction: id = f"tx_{int(time.time())}_{self.agent_id[:8]}"
TicksPerSecond == 2
TransactionId(t) == <<"tx", t \div TicksPerSecond, "agent-45">>

\* execute_transaction, "if not approval['approved']": the failure result, no
\* Transaction, no settlement
Rejected(call, approval) ==
    [call EXCEPT !.result =
        <<[raised |-> FALSE, success |-> FALSE, transaction_id |-> <<>>,
           reason |-> approval.reason, new_balance |-> <<>>]>>]

\* execute_transaction, approved: the Transaction is created and
\* wallet.execute_transaction is awaited (the one settlement call), up to its sleep
Submitted(call, approval, recipient) ==
    [call EXCEPT !.pc = "sleep",
                 !.settlements = @ + 1,
                 !.transaction =
                     <<Transaction(TransactionId(now), call.amount, recipient,
                                   call.purpose, now,
                                   _calculate_risk_level(approval.risk_score))>>]

\* execute_transaction that does not return on a rejection
BeginExecuteTransactionNoReject(t, amount, recipient, purpose) ==
    /\ task[t].pc = "idle"
    /\ calls < MaxCalls
    /\ calls' = calls + 1
    /\ LET approval == review_transaction(amount, recipient, purpose)
           call == [IdleTask EXCEPT !.op = "execute_transaction",
                                    !.call = calls + 1,
                                    !.amount = amount,
                                    !.purpose = purpose,
                                    !.entered = pause_flag.state,
                                    !.locked0 = wallet.locked_funds,
                                    !.approval = <<approval>>]
       IN  task' = [task EXCEPT ![t] = Submitted(call, approval, recipient)]
    /\ UNCHANGED <<ksVars, now, wallet, budget, spendable0, occVars>>

\* AgenticCommerce.execute_transaction up to the asyncio.sleep inside
\* wallet.execute_transaction: CFO review, the rejection return, the Transaction.
\* It does not consult the kill switch and locks no funds.
BeginExecuteTransaction(t, amount, recipient, purpose) ==
    /\ task[t].pc = "idle"
    /\ calls < MaxCalls
    /\ calls' = calls + 1
    /\ LET approval == review_transaction(amount, recipient, purpose)
           call == [IdleTask EXCEPT !.op = "execute_transaction",
                                    !.call = calls + 1,
                                    !.amount = amount,
                                    !.purpose = purpose,
                                    !.entered = pause_flag.state,
                                    !.locked0 = wallet.locked_funds,
                                    !.approval = <<approval>>]
       IN  IF ~approval.approved
           THEN task' = [task EXCEPT ![t] = Rejected(call, approval)]
           ELSE task' = [task EXCEPT ![t] = Submitted(call, approval, recipient)]
    /\ UNCHANGED <<ksVars, now, wallet, budget, spendable0, occVars>>

\* The "if success:" block that assigns the amount to the category bucket ("=" for "+=")
UpdateBudgetBucketAssigned(b, amount, category) ==
    [b EXCEPT !.spent = @ + amount,
              !.remaining = @ - amount,
              !.categories = IF category \in DOMAIN @
                             THEN [@ EXCEPT ![category] = amount]
                             ELSE @ @@ (category :> amount)]

\* execute_transaction, "if success:" block, forgetting to decrease remaining
UpdateBudgetSpentOnly(b, amount, category) ==
    [b EXCEPT !.spent = @ + amount,
              !.categories = IF category \in DOMAIN @
                             THEN [@ EXCEPT ![category] = @ + amount]
                             ELSE @ @@ (category :> amount)]

\* execute_transaction, "if success:" block: spent, remaining and the category bucket
UpdateBudget(b, amount, category) ==
    [b EXCEPT !.spent = @ + amount,
              !.remaining = @ - amount,
              !.categories = IF category \in DOMAIN @
                             THEN [@ EXCEPT ![category] = @ + amount]
                             ELSE @ @@ (category :> amount)]

\* The result dict of execute_transaction after wallet.execute_transaction returned
Settled(call, r) ==
    [call EXCEPT !.pc = "idle",
                 !.transaction = <<r.transaction>>,
                 !.result = <<[raised |-> FALSE, success |-> r.success,
                               transaction_id |-> <<r.transaction.id>>,
                               reason |-> <<>>,
                               new_balance |-> <<get_balance(r.wallet)>>]>>]

\* execute_transaction that calls wallet.execute_transaction again when it failed
SettleExecuteTransactionRetry(t) ==
    /\ task[t].pc = "sleep"
    /\ task[t].op = "execute_transaction"
    /\ LET r == WalletSettle(wallet, task[t].transaction[1])
       IN  /\ wallet' = r.wallet
           /\ budget' = IF r.success
                        THEN UpdateBudget(budget, task[t].amount,
                                          task[t].approval[1].category)
                        ELSE budget
           /\ task' = [task EXCEPT ![t] =
                          IF r.success
                          THEN Settled([task[t] EXCEPT !.settlement = "completed"], r)
                          ELSE [task[t] EXCEPT !.settlements = @ + 1]]
    /\ UNCHANGED <<ksVars, now, calls, spendable0, occVars>>

\* AgenticCommerce.execute_transaction after the sleep: the wallet's check, debit and
\* append, then the budget update and the result, with no suspending await between.
SettleExecuteTransaction(t) ==
    /\ task[t].pc = "sleep"
    /\ task[t].op = "execute_transaction"
    /\ LET r == WalletSettle(wallet, task[t].transaction[1])
       IN  /\ wallet' = r.wallet
           /\ budget' = IF r.success
                        THEN UpdateBudget(budget, task[t].amount,
                                          task[t].approval[1].category)
                        ELSE budget
           /\ task' = [task EXCEPT ![t] =
                          Settled([task[t] EXCEPT !.settlement = "completed"], r)]
    /\ UNCHANGED <<ksVars, now, calls, spendable0, occVars>>

\* Exceptions the settlement step (the simulated blockchain call inside the try block
\* of wallet.execute_transaction) may raise
SettlementExceptions == {"ConnectionError", "PanicException"}

\* AgenticCommerce.execute_transaction when the settlement step raises: the wallet's
\* "except Exception" turns the exception into a False return, and the orchestrator
\* returns an ordinary result with success False.
SettleExecuteTransactionRaises(t, exception) ==
    /\ task[t].pc = "sleep"
    /\ task[t].op = "execute_transaction"
    /\ LET r == WalletSettleRaised(wallet, task[t].transaction[1])
       IN  /\ wallet' = r.wallet
           /\ budget' = budget
           /\ task' = [task EXCEPT ![t] =
                          Settled([task[t] EXCEPT !.settlement = exception], r)]
    /\ UNCHANGED <<ksVars, now, calls, spendable0, occVars>>

-----------------------------------------------------------------------------
(* States after construction *)

InitKill ==
    /\ pause_flag = SystemPauseFlag
    /\ ks_out = NoCall
    /\ now = 0

InitCommerceIdle ==
    /\ wallet = [balance |-> 0, locked_funds |-> 0, transactions |-> <<>>]
    /\ budget = [total_allocation |-> 0, spent |-> 0, remaining |-> 0, categories |-> <<>>]
    /\ task = <<>>
    /\ calls = 0
    /\ spendable0 = 0

InitOCCIdle ==
    /\ state = [version |-> 1, current_trend |-> None]
    /\ agent = <<>>

-----------------------------------------------------------------------------
(* The kill switch on its own *)

NextKill ==
    \/ \E c \in ConfidenceScores : CheckConfidence(c)
    \/ \E v \in Volatilities : CheckMarketCrash(v)
    \/ \E r \in PanicReason, d \in HaltDetails : TriggerHalt(r, d)
    \/ Tick

InitKillSwitch == InitKill /\ InitCommerceIdle /\ InitOCCIdle

SpecKill == InitKillSwitch /\ [][NextKill]_vars

-----------------------------------------------------------------------------------------------------------------------------------------------------
(* The wallet's history, read while execute_transaction calls run and time passes *)

\* timedelta(days=1), in seconds
SecondsPerDay == 86400
\* the days argument of get_transaction_history
HistoryDays == {0, 30}

\* AutonomousWallet.get_transaction_history: the transactions recorded at or after
\* utcnow() - timedelta(days), in the order of the list
get_transaction_history(w, days, utcnow) ==
    SelectSeq(w.transactions,
              LAMBDA x : x.timestamp >= utcnow - days * SecondsPerDay * TicksPerSecond)

\* await wallet.get_transaction_history(days): no suspending await, no field written
GetTransactionHistory(t, days) ==
    /\ task[t].pc = "idle"
    /\ calls < MaxCalls
    /\ calls' = calls + 1
    /\ task' = [task EXCEPT ![t] =
                   [IdleTask EXCEPT !.op = "get_transaction_history",
                                    !.call = calls + 1,
                                    !.amount = days,
                                    !.result =
                                        <<get_transaction_history(wallet, days, now)>>]]
    /\ UNCHANGED <<ksVars, now, wallet, budget, spendable0, occVars>>

InitHistory ==
    /\ InitKill
    /\ wallet = AutonomousWallet(400)
    /\ budget = Budget(10000)
    /\ task = [t \in TaskIds |-> IdleTask]
    /\ calls = 0
    /\ spendable0 = 0
    /\ InitOCCIdle

NextHistory ==
    \/ \E t \in TaskIds : BeginExecuteTransaction(t, 100, "recipient", {"gpu"})
    \/ \E t \in TaskIds : SettleExecuteTransaction(t)
    \/ \E t \in TaskIds, d \in HistoryDays : GetTransactionHistory(t, d)
    \/ Tick

SpecHistory == InitHistory /\ [][NextHistory]_vars

-----------------------------------------------------------------------------
(* analyze_opportunity as a function of its argument: risk inputs whose mean lies on,
   below and above every level boundary, and revenues on both sides of every ROI
   threshold *)

AnalysisTaskIds == {"t1"}
\* market_risk, complexity, urgency in hundredths
AnalysisRisks == {<<0, 0, 0>>, <<20, 20, 20>>, <<70, 10, 0>>, <<30, 50, 0>>,
                  <<70, 20, 20>>, <<60, 60, 20>>, <<70, 100, 20>>, <<100, 100, 20>>,
                  <<100, 100, 70>>, <<100, 100, 100>>}
\* expected_revenue as a percentage of the cost: ROI 0, 4, 5, 10, 11, 20, 21, 30, 31,
\* 50 and 51 per cent
RevenuePercents == {100, 104, 105, 110, 111, 120, 121, 130, 131, 150, 151}
AnalysisOpportunities ==
    {[cost |-> 2000, expected_revenue |-> 20 * r, market_risk |-> p[1],
      complexity |-> p[2], urgency |-> p[3]] : r \in RevenuePercents, p \in AnalysisRisks}
    \cup {[cost |-> c, expected_revenue |-> 500, market_risk |-> p[1],
           complexity |-> p[2], urgency |-> p[3]] : c \in {0, 20000}, p \in AnalysisRisks}

\* await cfo_agent.analyze_opportunity(opportunity): no suspending await, no field
\* written
AnalyzeOpportunity(t, opportunity) ==
    /\ task' = [task EXCEPT ![t] =
                   [IdleTask EXCEPT !.op = "analyze_opportunity",
                                    !.amount = opportunity.cost,
                                    !.opportunity = <<opportunity>>,
                                    !.result = <<analyze_opportunity(opportunity)>>]]
    /\ UNCHANGED <<ksVars, now, wallet, budget, calls, spendable0, occVars>>

InitAnalysis ==
    /\ InitKill
    /\ wallet = AutonomousWallet(0)
    /\ budget = Budget(0)
    /\ task = [t \in AnalysisTaskIds |-> IdleTask]
    /\ calls = 0
    /\ spendable0 = 0
    /\ InitOCCIdle

NextAnalysis ==
    \E t \in AnalysisTaskIds, o \in AnalysisOpportunities : AnalyzeOpportunity(t, o)

SpecAnalysis == InitAnalysis /\ [][NextAnalysis]_vars

-----------------------------------------------------------------------------
(* review_transaction as a function of its arguments: amounts on both sides of every
   ceiling and of the risk cutoff, and a purpose for every category *)

ReviewTaskIds  == {"t1"}
ReviewAmounts  == {-100, 0, 1, 100, 101, 200, 201, 300, 301, 500, 501, 790, 799, 800,
                   801, 1000, 1001, 1500}
ReviewPurposes == {{"gpu"}, {"backup"}, {"api"}, {"promotion"}, {"study"}, {},
                   {"storage", "marketing"}}

\* await cfo_agent.review_transaction(amount, recipient, purpose): no suspending
\* await, no field written
ReviewTransaction(t, amount, purpose) ==
    /\ task' = [task EXCEPT ![t] =
                   [IdleTask EXCEPT !.op = "review_transaction",
                                    !.amount = amount,
                                    !.purpose = purpose,
                                    !.approval =
                                        <<review_transaction(amount, "recipient",
                                                             purpose)>>]]
    /\ UNCHANGED <<ksVars, now, wallet, budget, calls, spendable0, occVars>>

InitReview ==
    /\ InitKill
    /\ wallet = AutonomousWallet(0)
    /\ budget = Budget(0)
    /\ task = [t \in ReviewTaskIds |-> IdleTask]
    /\ calls = 0
    /\ spendable0 = 0
    /\ InitOCCIdle

NextReview ==
    \E t \in ReviewTaskIds, a \in ReviewAmounts, p \in ReviewPurposes :
        ReviewTransaction(t, a, p)

SpecReview == InitReview /\ [][NextReview]_vars

-----
(* The commerce orchestrator with the kill switch beside it *)

\* config["budget"] values, and the balances the embedding code funds the wallet with
\* (AgenticCommerce creates the wallet with balance 0 and has no deposit operation)
BudgetConfigs   == {300, 10000}
InitialBalances == {0, 400}

\* inputs of execute_transaction
Amounts  == {-100, 100, 400, 900}
Purposes == {{"gpu"}, {}}

Init ==
    /\ InitKill
    /\ \E b \in InitialBalances : wallet = AutonomousWallet(b)
    /\ \E a \in BudgetConfigs : budget = Budget(a)
    /\ task = [t \in TaskIds |-> IdleTask]
    /\ calls = 0
    /\ spendable0 = 0
    /\ InitOCCIdle

Next ==
    \/ \E r \in {"market_crash", "budget_anomaly"} : TriggerHalt(r, "Test emergency halt")
    \/ \E t \in TaskIds, a \in Amounts, p \in Purposes :
           BeginExecuteTransaction(t, a, "recipient", p)
    \/ \E t \in TaskIds : SettleExecuteTransaction(t)
    \/ \E t \in TaskIds, o \in Opportunities : MakeEconomicDecision(t, o)

Spec == Init /\ [][Next]_vars

-----------------------------------------------------------------------------
(* execute_transaction with a settlement step that may raise, on a wallet that may
   already hold a reservation made through the wallet's own lock_funds *)

\* (balance, locked_funds) of the wallet when the calls start
FundedWallets == {<<0, 0>>, <<400, 0>>, <<400, 100>>, <<1200, 0>>}
SettleAmounts == {100, 400, 900, 5000}

InitSettle ==
    /\ InitKill
    /\ \E f \in FundedWallets :
           wallet = [AutonomousWallet(f[1]) EXCEPT !.locked_funds = f[2]]
    /\ \E a \in BudgetConfigs : budget = Budget(a)
    /\ task = [t \in TaskIds |-> IdleTask]
    /\ calls = 0
    /\ spendable0 = 0
    /\ InitOCCIdle

NextSettle ==
    \/ \E t \in TaskIds, a \in SettleAmounts, p \in Purposes :
           BeginExecuteTransaction(t, a, "recipient", p)
    \/ \E t \in TaskIds : SettleExecuteTransaction(t)
    \/ \E t \in TaskIds, e \in SettlementExceptions : SettleExecuteTransactionRaises(t, e)

SpecSettle == InitSettle /\ [][NextSettle]_vars

-----------------------------------------------------------------------------
(* make_economic_decision over a range of opportunities, with execute_transaction
   calls beside it that use up the budget *)

DecisionBudgets == {300, 10000}
DecisionAmounts == {100, 400}

InitDecision ==
    /\ InitKill
    /\ wallet = AutonomousWallet(400)
    /\ \E a \in DecisionBudgets : budget = Budget(a)
    /\ task = [t \in TaskIds |-> IdleTask]
    /\ calls = 0
    /\ spendable0 = 0
    /\ InitOCCIdle

NextDecision ==
    \/ \E t \in TaskIds, o \in DecisionOpportunities : MakeEconomicDecision(t, o)
    \/ \E t \in TaskIds, a \in DecisionAmounts :
           BeginExecuteTransaction(t, a, "recipient", {"gpu"})
    \/ \E t \in TaskIds : SettleExecuteTransaction(t)

SpecDecision == InitDecision /\ [][NextDecision]_vars

-----------------------------------------------------------------------------
(* The wallet on its own: lock_funds, unlock_funds and execute_transaction called
   directly, in any order and interleaving *)

WalletBalances == {0, 2, 3}
WalletAmounts  == {-1, 0, 1, 2}

InitWallet ==
    /\ InitKill
    /\ \E b \in WalletBalances : wallet = AutonomousWallet(b)
    /\ budget = Budget(0)
    /\ task = [t \in TaskIds |-> IdleTask]
    /\ calls = 0
    /\ spendable0 = 0
    /\ InitOCCIdle

NextWallet ==
    \/ \E t \in TaskIds, a \in WalletAmounts : CallLockFunds(t, a)
    \/ \E t \in TaskIds : LockFunds(t)
    \/ \E t \in TaskIds, a \in WalletAmounts : UnlockFunds(t, a)
    \/ \E t \in TaskIds, a \in WalletAmounts : CallWalletExecute(t, a)
    \/ \E t \in TaskIds : WalletExecute(t)

SpecWallet == InitWallet /\ [][NextWallet]_vars

-----------------------------------------------------------------------------
(* Concurrent lock_funds calls: the calls are created together (asyncio.gather) on a
   wallet that may already hold reservations, and then run in any order *)

LockTaskIds == {"t1", "t2", "t3"}
MaxBalance  == 4
MaxLock     == 4

InitLock ==
    /\ InitKill
    /\ \E b \in 0..MaxBalance : \E l \in 0..b :
           /\ wallet = [AutonomousWallet(b) EXCEPT !.locked_funds = l]
           /\ spendable0 = b - l
    /\ budget = Budget(0)
    /\ \E amounts \in [LockTaskIds -> 1..MaxLock] :
           task = [t \in LockTaskIds |->
                      [IdleTask EXCEPT !.op = "lock_funds", !.pc = "lock_funds",
                                       !.amount = amounts[t]]]
    /\ calls = 0
    /\ InitOCCIdle

NextLock == \E t \in LockTaskIds : LockFunds(t)

SpecLock == InitLock /\ [][NextLock]_vars

-----------------------------------------------------------------------------
(* Optimistic concurrency control: tests/unit/test_occ.py,
   test_concurrent_update_race_condition.  Each writer reads the version, calls
   update_state, sleeps (the only scheduling point) and then checks and writes. *)

AgentIds   == {"agent-1", "agent-2"}
Trends     == {"AI Regulation", "Crypto Trends", "Tech News"}
MaxVersion == 3

\* A writer that has not read yet
NewAgent == [pc |-> "start", expected_version |-> 0, new_trend |-> None, result |-> <<>>]

\* class VersionConflictError
VersionConflictError(resource_id, expected_version, actual_version) ==
    [raised |-> TRUE, resource_id |-> resource_id,
     expected_version |-> expected_version, actual_version |-> actual_version]
NewVersion(version) ==
    [raised |-> FALSE, resource_id |-> "influencer-1",
     expected_version |-> version, actual_version |-> version]

\* agent1_version = state.version
ReadVersion(a) ==
    /\ agent[a].pc = "start"
    /\ agent' = [agent EXCEPT ![a].pc = "read", ![a].expected_version = state.version]
    /\ UNCHANGED <<ksVars, now, commerceVars, state>>

\* update_state(agent_id, new_trend, expected_version) up to its asyncio.sleep(0.01)
CallUpdateState(a, new_trend) ==
    /\ agent[a].pc = "read"
    /\ agent' = [agent EXCEPT ![a].pc = "sleep", ![a].new_trend = new_trend]
    /\ UNCHANGED <<ksVars, now, commerceVars, state>>

\* update_state that compares with >, so that it checks nothing when the stored
\* version has moved on
UpdateStateNoCheck(a) ==
    /\ agent[a].pc = "sleep"
    /\ IF state.version < agent[a].expected_version
       THEN /\ agent' = [agent EXCEPT ![a].pc = "done",
                            ![a].result = <<VersionConflictError(
                                "influencer-1", agent[a].expected_version,
                                state.version)>>]
            /\ state' = state
       ELSE /\ state' = [current_trend |-> agent[a].new_trend,
                         version |-> state.version + 1]
            /\ agent' = [agent EXCEPT ![a].pc = "done",
                            ![a].result = <<NewVersion(state.version + 1)>>]
    /\ UNCHANGED <<ksVars, now, commerceVars>>

\* update_state that reports the version after its own would-be write as actual
UpdateStateWrongActual(a) ==
    /\ agent[a].pc = "sleep"
    /\ IF state.version # agent[a].expected_version
       THEN /\ agent' = [agent EXCEPT ![a].pc = "done",
                            ![a].result = <<VersionConflictError(
                                "influencer-1", agent[a].expected_version,
                                state.version + 1)>>]
            /\ state' = state
       ELSE /\ state' = [current_trend |-> agent[a].new_trend,
                         version |-> state.version + 1]
            /\ agent' = [agent EXCEPT ![a].pc = "done",
                            ![a].result = <<NewVersion(state.version + 1)>>]
    /\ UNCHANGED <<ksVars, now, commerceVars>>

\* update_state after the sleep: the version check, then the write, in one run
UpdateState(a) ==
    /\ agent[a].pc = "sleep"
    /\ IF state.version # agent[a].expected_version
       THEN /\ agent' = [agent EXCEPT ![a].pc = "done",
                            ![a].result = <<VersionConflictError(
                                "influencer-1", agent[a].expected_version,
                                state.version)>>]
            /\ state' = state
       ELSE /\ state' = [current_trend |-> agent[a].new_trend,
                         version |-> state.version + 1]
            /\ agent' = [agent EXCEPT ![a].pc = "done",
                            ![a].result = <<NewVersion(state.version + 1)>>]
    /\ UNCHANGED <<ksVars, now, commerceVars>>

InitOCC ==
    /\ InitKill
    /\ InitCommerceIdle
    /\ \E v \in 1..MaxVersion :
           state = [version |-> v, current_trend |-> "AI Regulation"]
    /\ agent = [a \in AgentIds |-> NewAgent]

NextOCC ==
    \/ \E a \in AgentIds : ReadVersion(a)
    \/ \E a \in AgentIds, n \in Trends \ {"AI Regulation"} : CallUpdateState(a, n)
    \/ \E a \in AgentIds : UpdateState(a)

SpecOCC == InitOCC /\ [][NextOCC]_vars

-----------------------------------------------------------------------------
(* Properties *)

OrchestratorOps == {"execute_transaction", "make_economic_decision"}

\* C1: once the kill switch has left the active state, every AgenticCommerce entry
\* point that starts afterwards fails at once with the halt signal carrying the
\* halt's reason: it creates no transaction, does not reach settlement and returns
\* no ordinary result.
C1_HaltedCallsPanic ==
    \A t \in DOMAIN task :
        (task[t].op \in OrchestratorOps /\ task[t].entered # "active") =>
            /\ task[t].pc = "idle"
            /\ task[t].transaction = <<>>
            /\ task[t].result # <<>>
            /\ task[t].result[1].raised
            /\ task[t].result[1].reason = pause_flag.reason

\* C2: in every state reachable through lock_funds, unlock_funds and
\* execute_transaction calls on one wallet, for every amount the operations accept,
\* locked_funds <= balance and the spendable balance is >= 0.
C2_LockedWithinBalance ==
    /\ wallet.locked_funds <= wallet.balance
    /\ get_balance(wallet) >= 0

RECURSIVE SumAmounts(_)
SumAmounts(ts) ==
    IF ts = {} THEN 0
    ELSE LET t == CHOOSE x \in ts : TRUE
         IN  task[t].amount + SumAmounts(ts \ {t})

Succeeded(ts) == {t \in ts : task[t].result = <<TRUE>>}
Finished(ts)  == \A t \in ts : task[t].result # <<>>

\* C3: for concurrent lock_funds calls with positive amounts, the sum of the amounts
\* of the successful locks never exceeds the spendable balance that existed before
\* the calls; once all calls have run: if the amounts sum to more than that balance
\* not all succeeded, if none fits alone none succeeded, and if some call fits alone
\* at least one succeeded (so of two calls that each fit alone but not together,
\* exactly one succeeds).
C3_NoOverdraw ==
    /\ SumAmounts(Succeeded(DOMAIN task)) <= spendable0
    /\ Finished(DOMAIN task) =>
          /\ SumAmounts(DOMAIN task) > spendable0 =>
                 Succeeded(DOMAIN task) # DOMAIN task
          /\ (\A t \in DOMAIN task : task[t].amount > spendable0) =>
                 Succeeded(DOMAIN task) = {}
          /\ (\E t \in DOMAIN task : task[t].amount <= spendable0) =>
                 Succeeded(DOMAIN task) # {}

\* C3 witness: all calls have run, two of them fit alone but not together, and
\* exactly one call succeeded
C3_Witness ==
    /\ Finished(DOMAIN task)
    /\ Cardinality(Succeeded(DOMAIN task)) = 1
    /\ \E t, u \in DOMAIN task :
           /\ t # u
           /\ task[t].amount <= spendable0
           /\ task[u].amount <= spendable0
           /\ task[t].amount + task[u].amount > spendable0

\* C4: after any sequence of execute_transaction calls (executed, rejected or failed
\* at settlement), budget.spent + budget.remaining = budget.total_allocation.
C4_BudgetBalanced ==
    budget.spent + budget.remaining = budget.total_allocation

\* C4 witness: a transaction was executed, one call was rejected at review and one
\* failed at settlement
C4_Witness ==
    /\ wallet.transactions # <<>>
    /\ budget.spent > 0
    /\ \E t, u \in DOMAIN task :
           /\ task[t].op = "execute_transaction" /\ task[t].result # <<>>
           /\ ~task[t].result[1].success /\ task[t].result[1].transaction_id = <<>>
           /\ task[u].op = "execute_transaction" /\ task[u].result # <<>>
           /\ ~task[u].result[1].success /\ task[u].result[1].transaction_id # <<>>

\* C5: budget.remaining is never negative, for any initial wallet balance and any
\* non-negative budget allocation.
C5_RemainingNonNegative ==
    budget.remaining >= 0

\* C6: a write that presents an expected version different from the stored version
\* is rejected with VersionConflictError carrying the expected version (the one the
\* writer read) and the actual, stored version, and leaves payload and stored version
\* unchanged.
C6_StaleWriteRejected ==
    [][\A a \in DOMAIN agent :
          (/\ agent[a].pc = "sleep"
           /\ agent'[a].pc = "done"
           /\ agent[a].expected_version # state.version) =>
              /\ state' = state
              /\ agent'[a].result =
                     <<VersionConflictError("influencer-1", agent[a].expected_version,
                                            state.version)>>]_vars

\* C6 witness: two readers read version 1, one wrote, the other's write failed with
\* expected 1 and actual 2
C6_Witness ==
    \E a, b \in DOMAIN agent :
        /\ a # b
        /\ agent[a].result # <<>> /\ ~agent[a].result[1].raised
        /\ agent[a].result[1].actual_version = 2
        /\ agent[b].result # <<>> /\ agent[b].result[1].raised
        /\ agent[b].result[1].expected_version = 1
        /\ agent[b].result[1].actual_version = 2
        /\ state.version = 2

\* C7: when two writers write the same resource concurrently from the same starting
\* version v, exactly one write succeeds (the version becomes v + 1 and its payload
\* is stored) and the other receives VersionConflictError whose actual_version is
\* v + 1; the loser's payload is not stored.
C7_ExactlyOneWriterWins ==
    \A a, b \in DOMAIN agent :
        (/\ a # b
         /\ agent[a].pc = "done" /\ agent[b].pc = "done"
         /\ agent[a].expected_version = agent[b].expected_version) =>
            \E w, l \in {a, b} :
                /\ w # l
                /\ ~agent[w].result[1].raised
                /\ agent[w].result[1].actual_version = agent[w].expected_version + 1
                /\ agent[l].result[1].raised
                /\ agent[l].result[1].expected_version = agent[l].expected_version
                /\ agent[l].result[1].actual_version = agent[w].expected_version + 1
                /\ state.version = agent[w].expected_version + 1
                /\ state.current_trend = agent[w].new_trend

\* C7 witness: both writers started from the same version with different payloads
\* and both calls have ended
C7_Witness ==
    \E a, b \in DOMAIN agent :
        /\ a # b
        /\ agent[a].pc = "done" /\ agent[b].pc = "done"
        /\ agent[a].expected_version = agent[b].expected_version
        /\ agent[a].new_trend # agent[b].new_trend
        /\ agent[b].result[1].raised

\* C8: emergency_halt is terminal: no KillSwitchProtocol operation moves the state
\* back to active or paused, and the only state changes are active -> paused and
\* active / paused -> emergency_halt.
C8_HaltTerminal ==
    [][/\ pause_flag.state = "emergency_halt" => pause_flag'.state = "emergency_halt"
       /\ pause_flag'.state # pause_flag.state =>
             \/ /\ pause_flag.state = "active"
                /\ pause_flag'.state \in {"paused", "emergency_halt"}
             \/ /\ pause_flag.state = "paused"
                /\ pause_flag'.state = "emergency_halt"]_vars

\* C8 witness: the system is halted and further kill-switch calls were made after
\* the halt (a check that raised, at a later clock reading)
C8_Witness ==
    /\ pause_flag.state = "emergency_halt"
    /\ pause_flag.paused_at # Time(now)
    /\ ks_out.op = "check_confidence"
    /\ ks_out.raised

\* C9: check_confidence(c) with c below the floor and check_market_crash(v) with v
\* above the ceiling each move the state to emergency_halt, record the reason
\* (low_confidence, market_crash) and raise; a score at the floor or a volatility at
\* the ceiling does neither.
C9_ChecksHalt ==
    /\ ks_out.op = "check_confidence" =>
          IF ks_out.arg[1] < min_confidence
          THEN /\ ks_out.raised
               /\ ks_out.reason = "low_confidence"
               /\ pause_flag.state = "emergency_halt"
               /\ pause_flag.reason # None
          ELSE ~ks_out.raised
    /\ ks_out.op = "check_market_crash" =>
          IF ks_out.arg[1] > VolatilityCeiling
          THEN /\ ks_out.raised
               /\ ks_out.reason = "market_crash"
               /\ pause_flag.state = "emergency_halt"
               /\ pause_flag.reason # None
          ELSE ~ks_out.raised

-----------------------------------------------------------------------------
(* Retrying writers: tests/unit/test_occ.py, test_retry_on_version_conflict.
   update_with_retry runs each attempt (read, simulated concurrent update, check,
   write) without suspending; its only scheduling point is the sleep before the next
   attempt. *)

RetryIds   == {"w1", "w2"}
MaxRetries == 2

\* A retrying writer before its call
NewRetry ==
    [pc |-> "start", new_trend |-> None, max_retries |-> 0, attempt |-> 0,
     attempts |-> 0, wrote |-> FALSE, result |-> <<>>]

\* "return state.version", and the None a coroutine returns when its body ends
ReturnValue(value) == [raised |-> FALSE, value |-> value]

\* update_with_retry(new_trend, max_retries) is called
CallUpdateWithRetry(a, new_trend, max_retries) ==
    /\ agent[a].pc = "start"
    /\ agent' = [agent EXCEPT ![a] = [NewRetry EXCEPT !.pc = "attempt",
                                                    !.new_trend = new_trend,
                                                    !.max_retries = max_retries]]
    /\ UNCHANGED <<ksVars, now, commerceVars, state>>

\* One pass of "for attempt in range(max_retries)": the loop test, the attempt and
\* the except clause, up to the return, the raise or the sleep
UpdateWithRetry(a) ==
    /\ agent[a].pc = "attempt"
    /\ LET w == agent[a]
           current_version == state.version
           version == IF w.attempt = 0 THEN state.version + 1 ELSE state.version
       IN  IF w.attempt >= w.max_retries
           THEN /\ agent' = [agent EXCEPT ![a].pc = "done",
                                          ![a].result = <<ReturnValue(<<>>)>>]
                /\ state' = state
           ELSE IF version # current_version
           THEN /\ state' = [state EXCEPT !.version = version]
                /\ IF w.attempt = w.max_retries - 1
                   THEN agent' = [agent EXCEPT
                                     ![a].pc = "done",
                                     ![a].attempts = @ + 1,
                                     ![a].result =
                                         <<VersionConflictError("influencer-3",
                                               current_version, version)>>]
                   ELSE agent' = [agent EXCEPT ![a].attempt = @ + 1,
                                               ![a].attempts = @ + 1]
           ELSE /\ state' = [state EXCEPT !.current_trend = w.new_trend,
                                          !.version = version + 1]
                /\ agent' = [agent EXCEPT ![a].pc = "done",
                                          ![a].attempts = @ + 1,
                                          ![a].wrote = TRUE,
                                          ![a].result = <<ReturnValue(<<version + 1>>)>>]
    /\ UNCHANGED <<ksVars, now, commerceVars>>

InitRetry ==
    /\ InitKill
    /\ InitCommerceIdle
    /\ state = [version |-> 1, current_trend |-> None]
    /\ agent = [a \in RetryIds |-> NewRetry]

NextRetry ==
    \/ \E a \in RetryIds, trend \in Trends, max_retries \in 0..MaxRetries :
           CallUpdateWithRetry(a, trend, max_retries)
    \/ \E a \in RetryIds : UpdateWithRetry(a)

SpecRetry == InitRetry /\ [][NextRetry]_vars

-----------------------------------------------------------------------------
(* execute_transaction: review, reservation and settlement *)

\* The execute_transaction calls, and the steps they take
ExecuteCalls == {t \in DOMAIN task : task[t].op = "execute_transaction"}
\* t returns from (or enters the settlement of) a call it has just started
Begins(t) ==
    /\ calls' = calls + 1
    /\ task'[t].call = calls'
    /\ task'[t].op = "execute_transaction"
\* t's settlement step ends and the call returns
Settles(t) ==
    /\ task[t].op = "execute_transaction"
    /\ task[t].pc = "sleep"
    /\ task'[t].pc = "idle"

\* C11: a halt signal (PanicException) raised inside an orchestrator call, the
\* settlement step of execute_transaction included, reaches the caller as that
\* exception; it is never turned into an ordinary result with success false.
C11_HaltPropagates ==
    \A t \in ExecuteCalls :
        task[t].settlement = "PanicException" =>
            /\ task[t].result # <<>>
            /\ task[t].result[1].raised

\* C12: a call rejected at review returns success false with no transaction id and
\* the rejection reason; balance, locked_funds, history, budget.spent,
\* budget.remaining and the category buckets are unchanged and settlement is not
\* invoked.
C12_RejectionChangesNothing ==
    [][\A t \in DOMAIN task :
          (Begins(t) /\ ~task'[t].approval[1].approved) =>
              /\ wallet' = wallet
              /\ budget' = budget
              /\ task'[t].pc = "idle"
              /\ task'[t].settlements = 0
              /\ task'[t].transaction = <<>>
              /\ task'[t].result # <<>>
              /\ ~task'[t].result[1].raised
              /\ ~task'[t].result[1].success
              /\ task'[t].result[1].transaction_id = <<>>
              /\ task'[t].result[1].reason = task'[t].approval[1].reason
              /\ task'[t].result[1].reason[1] = "Transaction rejected"]_vars

\* C12 witness: a call was rejected at review on a wallet that has already executed
\* a transaction and holds a reservation
C12_Witness ==
    /\ wallet.transactions # <<>>
    /\ wallet.locked_funds > 0
    /\ budget.spent > 0
    /\ \E t \in ExecuteCalls :
           /\ ~task[t].approval[1].approved
           /\ task[t].result # <<>>
           /\ task[t].result[1].transaction_id = <<>>

\* C13: an approved call locks its amount in the wallet before settlement starts; if
\* the spendable balance is smaller than the amount the lock fails and the call
\* returns failure without settlement and without changing balance or budget.
C13_ApprovedAmountLocked ==
    [][\A t \in DOMAIN task :
          (Begins(t) /\ task'[t].approval[1].approved) =>
              IF task'[t].amount <= get_balance(wallet)
              THEN /\ wallet'.locked_funds = wallet.locked_funds + task'[t].amount
                   /\ wallet'.balance = wallet.balance
                   /\ task'[t].pc = "sleep"
              ELSE /\ wallet' = wallet
                   /\ budget' = budget
                   /\ task'[t].pc = "idle"
                   /\ task'[t].settlements = 0
                   /\ task'[t].result # <<>>
                   /\ ~task'[t].result[1].success]_vars

\* C14: when settlement of amount a in category c succeeds, one step decreases the
\* balance by a, appends the transaction with status executed, clears the amount
\* locked for it from locked_funds, and increases budget.spent and categories[c] by
\* a while remaining decreases by a.
C14_SettlementAtomic ==
    [][\A t \in DOMAIN task :
          (Settles(t) /\ task'[t].result[1].success) =>
              LET a == task[t].amount
                  c == task[t].approval[1].category
              IN  /\ wallet'.balance = wallet.balance - a
                  /\ wallet'.transactions =
                         Append(wallet.transactions,
                                [task[t].transaction[1] EXCEPT !.status = "executed"])
                  /\ wallet.locked_funds >= a
                  /\ wallet'.locked_funds = wallet.locked_funds - a
                  /\ budget'.spent = budget.spent + a
                  /\ budget'.remaining = budget.remaining - a
                  /\ c \in DOMAIN budget'.categories
                  /\ budget'.categories[c] =
                         (IF c \in DOMAIN budget.categories
                          THEN budget.categories[c] ELSE 0) + a
                  /\ budget'.total_allocation = budget.total_allocation]_vars

\* C15: when settlement of an approved transaction fails (insufficient funds, or an
\* exception of the settlement step that is not a halt signal), the transaction ends
\* with status failed, locked_funds has the value it had before the call, balance,
\* history and budget are unchanged, and the result reports success false.
C15_FailedSettlementRestores ==
    [][\A t \in DOMAIN task :
          (/\ Settles(t)
           /\ task'[t].settlement # "PanicException"
           /\ ~task'[t].result[1].success) =>
              /\ task'[t].transaction[1].status = "failed"
              /\ wallet'.locked_funds = task[t].locked0
              /\ wallet'.balance = wallet.balance
              /\ wallet'.transactions = wallet.transactions
              /\ budget' = budget
              /\ ~task'[t].result[1].raised
              /\ task'[t].result[1].transaction_id = <<task[t].transaction[1].id>>]_vars

\* C15 witness: one call failed at settlement for insufficient funds and one because
\* the settlement step raised, on a wallet that holds a reservation
C15_Witness ==
    /\ wallet.locked_funds > 0
    /\ \E t, u \in ExecuteCalls :
           /\ task[t].settlement = "completed"
           /\ ~task[t].result[1].success
           /\ task[t].transaction[1].status = "failed"
           /\ task[u].settlement = "ConnectionError"
           /\ ~task[u].result[1].success
           /\ task[u].transaction[1].status = "failed"

\* C16: a call invokes settlement at most once: exactly once when the request is
\* approved, never when it is rejected, and not again after a settlement failure;
\* the step after the settlement's sleep always ends the call.
C16_SingleSettlement ==
    \A t \in ExecuteCalls :
        /\ task[t].settlements <= 1
        /\ task[t].settlements = (IF task[t].approval[1].approved THEN 1 ELSE 0)
        /\ task[t].settlement # "none" =>
               /\ task[t].pc = "idle"
               /\ task[t].result # <<>>

\* C16 witness: an approved call whose settlement failed has returned, and another
\* call was rejected
C16_Witness ==
    \E t, u \in ExecuteCalls :
        /\ task[t].settlements = 1
        /\ task[t].pc = "idle"
        /\ ~task[t].result[1].success
        /\ task[t].transaction[1].status = "failed"
        /\ task[u].settlements = 0
        /\ ~task[u].approval[1].approved

-----------------------------------------------------------------------------
(* The wallet's reservations *)

\* C17: lock_funds(amount) returns true iff amount <= balance - locked_funds when it
\* runs; on success locked_funds increases by exactly amount and balance is
\* unchanged; on failure it returns false and balance and locked_funds are unchanged.
C17_LockFundsContract ==
    [][\A t \in DOMAIN task :
          (task[t].pc = "lock_funds" /\ task'[t].pc = "idle") =>
              LET amount == task[t].amount
                  fits == amount <= wallet.balance - wallet.locked_funds
              IN  /\ task'[t].result = <<fits>>
                  /\ wallet'.balance = wallet.balance
                  /\ wallet'.transactions = wallet.transactions
                  /\ wallet'.locked_funds =
                         (IF fits THEN wallet.locked_funds + amount
                          ELSE wallet.locked_funds)]_vars

\* C17 witness: a lock that took exactly the remaining spendable balance succeeded
\* and a later lock of a positive amount failed
C17_Witness ==
    /\ wallet.balance > 0
    /\ wallet.locked_funds = wallet.balance
    /\ \E t, u \in DOMAIN task :
           /\ task[t].op = "lock_funds" /\ task[t].result = <<TRUE>>
           /\ task[t].amount = wallet.balance
           /\ task[u].op = "lock_funds" /\ task[u].result = <<FALSE>>
           /\ task[u].amount > 0

\* A step that is unlock_funds(amount)
UnlockStep(amount) ==
    /\ calls' = calls + 1
    /\ \E t \in DOMAIN task :
           /\ task'[t].call = calls'
           /\ task'[t].op = "unlock_funds"
           /\ task'[t].amount = amount

\* C18: unlock_funds(amount) sets locked_funds to max(0, locked_funds - amount) and
\* never changes balance; once locked_funds is 0 any further unlock_funds call
\* leaves the wallet unchanged, and locked_funds is never negative after an unlock.
C18_UnlockFloorIdempotent ==
    [][\A amount \in WalletAmounts :
          UnlockStep(amount) =>
              /\ wallet'.locked_funds = Max(0, wallet.locked_funds - amount)
              /\ wallet'.balance = wallet.balance
              /\ wallet'.transactions = wallet.transactions
              /\ wallet'.locked_funds >= 0
              /\ wallet.locked_funds = 0 => wallet' = wallet]_vars

-----------------------------------------------------------------------------
(* Retrying writers *)

\* C19: update_with_retry makes at most max_retries attempts and ends either with a
\* write, returning the new version, or with VersionConflictError; it never returns
\* without one of the two.
C19_RetryWritesOrRaises ==
    \A a \in DOMAIN agent :
        agent[a].pc \in {"attempt", "done"} =>
            /\ agent[a].attempts <= agent[a].max_retries
            /\ agent[a].pc = "done" =>
                   IF agent[a].result[1].raised
                   THEN /\ ~agent[a].wrote
                        /\ agent[a].attempts = agent[a].max_retries
                   ELSE /\ agent[a].wrote
                        /\ agent[a].result[1].value # <<>>

-----------------------------------------------------------------------------
(* Economic decisions *)

\* t returns from make_economic_decision
Decides(t) ==
    /\ calls' = calls + 1
    /\ task'[t].call = calls'
    /\ task'[t].op = "make_economic_decision"

\* C20: make_economic_decision returns PROCEED iff the recommendation is STRONG_BUY
\* or BUY, the risk level is very_low, low or medium, cost <= budget.remaining and
\* confidence > 0.6 (strictly); otherwise it returns DECLINE.  It changes neither
\* wallet nor budget.
C20_ProceedIffAllFour ==
    [][\A t \in DOMAIN task :
          Decides(t) =>
              LET d == task'[t].result[1]
                  o == task'[t].opportunity[1]
                  all_four ==
                      /\ d.recommendation \in {"STRONG_BUY", "BUY"}
                      /\ d.risk_level \in {"very_low", "low", "medium"}
                      /\ o.cost <= budget.remaining
                      /\ FloatLess(Hundredths[60], d.confidence)
                  analysis == Analyses[o]
              IN  /\ d.recommendation = analysis.recommendation
                  /\ d.confidence = analysis.confidence
                  /\ d.risk_level = analysis.risk_level
                  /\ d.decision = (IF all_four THEN "PROCEED" ELSE "DECLINE")
                  /\ wallet' = wallet
                  /\ budget' = budget]_vars

\* C20 witness: after a transaction used up part of the budget, one opportunity was
\* taken and another, with a BUY recommendation at acceptable risk, was declined
\* because its cost exceeds budget.remaining
C20_Witness ==
    /\ budget.spent > 0
    /\ \E t, u \in DOMAIN task :
           /\ task[t].op = "make_economic_decision"
           /\ task[t].result[1].decision = "PROCEED"
           /\ task[u].op = "make_economic_decision"
           /\ task[u].result[1].decision = "DECLINE"
           /\ task[u].result[1].recommendation \in {"STRONG_BUY", "BUY"}
           /\ task[u].result[1].risk_level \in {"very_low", "low", "medium"}
           /\ ~task[u].result[1].can_afford

\* C21: no opportunity whose cost exceeds the max_exposure of its risk level (10000
\* very_low, 5000 low, 2000 medium, 500 high, 100 very_high) gets a PROCEED decision.
C21_ProceedWithinExposure ==
    \A t \in DOMAIN task :
        (task[t].op = "make_economic_decision"
         /\ task[t].result[1].decision = "PROCEED")
        => /\ task[t].result[1].max_exposure =
                  _calculate_max_exposure(task[t].result[1].risk_level)
           /\ task[t].opportunity[1].cost <= task[t].result[1].max_exposure

\* The reasons of a reasoning or reason string: what follows its opening phrase
Reasons(text) == {text[i] : i \in 2..Len(text)}

\* C22: when make_economic_decision declines, the reasoning names 'poor ROI' iff the
\* recommendation is neither STRONG_BUY nor BUY, 'high risk' iff the level is high or
\* very_high, 'insufficient budget' iff cost > budget.remaining and 'low confidence'
\* iff confidence <= 0.6, and it names at least one of them.
C22_DeclineNamesFailures ==
    [][\A t \in DOMAIN task :
          (Decides(t) /\ task'[t].result[1].decision = "DECLINE") =>
              LET d == task'[t].result[1]
                  o == task'[t].opportunity[1]
                  named == Reasons(d.reasoning)
              IN  /\ d.reasoning[1] = "Declining opportunity due to"
                  /\ "poor ROI" \in named
                         <=> d.recommendation \notin {"STRONG_BUY", "BUY"}
                  /\ "high risk" \in named <=> d.risk_level \in {"high", "very_high"}
                  /\ "insufficient budget" \in named <=> o.cost > budget.remaining
                  /\ "low confidence" \in named
                         <=> ~FloatLess(Hundredths[60], d.confidence)
                  /\ named # {}
                  /\ named \subseteq {"poor ROI", "high risk", "insufficient budget",
                                      "low confidence"}]_vars

\* C22 witness: one decline failed all four criteria, another only the budget
C22_Witness ==
    \E t, u \in DOMAIN task :
        /\ task[t].op = "make_economic_decision"
        /\ task[t].result[1].decision = "DECLINE"
        /\ Len(task[t].result[1].reasoning) = 5
        /\ task[u].op = "make_economic_decision"
        /\ task[u].result[1].decision = "DECLINE"
        /\ Reasons(task[u].result[1].reasoning) = {"insufficient budget"}

-----------------------------------------------------------------------------
(* CFO review *)

\* The ceilings of CFOAgent.__init__, as the claims state them
StatedCeiling ==
    [compute |-> 500, storage |-> 200, api_calls |-> 300, marketing |-> 1000,
     research |-> 500, other |-> 100]

\* C23: review_transaction approves iff amount <= the ceiling of the purpose's
\* category, amount <= the daily ceiling 1000 and min(amount / 1000, 1) < 0.8.
C23_ApprovedIffWithinLimits ==
    \A t \in DOMAIN task :
        task[t].op = "review_transaction" =>
            LET a == task[t].approval[1]
                amount == task[t].amount
            IN  /\ a.category = _categorize_transaction(task[t].purpose)
                /\ a.approved <=>
                       /\ amount <= StatedCeiling[a.category]
                       /\ amount <= 1000
                       /\ 10 * Min(amount, 1000) < 8 * 1000

\* C23 witness: 799 for marketing was approved
C23_Witness ==
    \E t \in DOMAIN task :
        /\ task[t].op = "review_transaction"
        /\ task[t].amount = 799
        /\ task[t].approval[1].category = "marketing"
        /\ task[t].approval[1].approved

\* C25: a rejection of review_transaction lists 'exceeds daily budget limit' iff
\* amount > daily ceiling, 'exceeds category limit' iff amount > category ceiling and
\* 'risk score too high' iff risk score >= 0.8, and lists at least one of them; an
\* approval lists none.
C25_RejectionListsFailures ==
    \A t \in DOMAIN task :
        task[t].op = "review_transaction" =>
            LET a == task[t].approval[1]
                amount == task[t].amount
                named == Reasons(a.reason)
            IN  IF a.approved
                THEN a.reason = <<"Transaction approved within all limits">>
                ELSE /\ a.reason[1] = "Transaction rejected"
                     /\ "exceeds daily budget limit" \in named
                            <=> amount > 1000
                     /\ "exceeds category limit" \in named
                            <=> amount > StatedCeiling[a.category]
                     /\ "risk score too high" \in named
                            <=> 10 * Min(amount, 1000) >= 8 * 1000
                     /\ named # {}
                     /\ named \subseteq {"exceeds daily budget limit",
                                         "exceeds category limit",
                                         "risk score too high"}

\* C25 witness: a rejection that failed all three conditions
C25_Witness ==
    \E t \in DOMAIN task :
        /\ task[t].op = "review_transaction"
        /\ ~task[t].approval[1].approved
        /\ Len(task[t].approval[1].reason) = 4

-----------------------------------------------------------------------------
(* CFO analysis *)

\* The float x is the decimal d (in ten-thousandths) up to 2^-50, which covers the
\* representation error of the decimal and the rounding of a few float operations
NearDecimal(x, d) ==
    /\ x[1] = d
    /\ x[2] <= FloatScale * 2^(FloatBits - 50)
    /\ -x[2] <= FloatScale * 2^(FloatBits - 50)

\* C27: the risk score is the mean of market_risk, complexity, urgency and
\* min(cost / 10000, 1) (computed in floats), and the level is very_low below 0.2, low
\* in [0.2, 0.4), medium in [0.4, 0.6), high in [0.6, 0.8), very_high from 0.8 on.
C27_LevelByMeanScore ==
    \A t \in DOMAIN task :
        task[t].op = "analyze_opportunity" =>
            LET o == task[t].opportunity[1]
                score == overall_risk(o)
                level == task[t].result[1].risk_level
            IN  /\ NearDecimal(score, (100 * (o.market_risk + o.complexity + o.urgency)
                                       + Min(o.cost, 10000)) \div 4)
                /\ level = "very_low"  <=> FloatLess(score, Hundredths[20])
                /\ level = "low"       <=> /\ FloatLeq(Hundredths[20], score)
                                           /\ FloatLess(score, Hundredths[40])
                /\ level = "medium"    <=> /\ FloatLeq(Hundredths[40], score)
                                           /\ FloatLess(score, Hundredths[60])
                /\ level = "high"      <=> /\ FloatLeq(Hundredths[60], score)
                                           /\ FloatLess(score, Hundredths[80])
                /\ level = "very_high" <=> FloatLeq(Hundredths[80], score)

\* C27 witness: four factors of 0.2 gave the score 0.2 exactly and the level low
C27_Witness ==
    \E t \in DOMAIN task :
        /\ task[t].op = "analyze_opportunity"
        /\ overall_risk(task[t].opportunity[1]) = Hundredths[20]
        /\ task[t].opportunity[1].market_risk = 20
        /\ task[t].opportunity[1].cost = 2000
        /\ task[t].result[1].risk_level = "low"

\* C28: the recommendation is STRONG_BUY iff roi > 50 at very_low or low risk, else
\* BUY iff roi > 20 at very_low, low or medium risk, else HOLD iff roi > 10 at
\* very_low or low risk, else AVOID, where roi = (revenue - cost) / cost * 100 for
\* cost > 0 and 0 otherwise.
C28_RecommendationRule ==
    \A t \in DOMAIN task :
        task[t].op = "analyze_opportunity" =>
            LET o == task[t].opportunity[1]
                level == task[t].result[1].risk_level
                gain100 == IF o.cost > 0 THEN (o.expected_revenue - o.cost) * 100 ELSE 0
                base == IF o.cost > 0 THEN o.cost ELSE 1
            IN  task[t].result[1].recommendation =
                    (IF gain100 > 50 * base /\ level \in {"very_low", "low"}
                     THEN "STRONG_BUY"
                     ELSE IF gain100 > 20 * base
                             /\ level \in {"very_low", "low", "medium"}
                     THEN "BUY"
                     ELSE IF gain100 > 10 * base /\ level \in {"very_low", "low"}
                     THEN "HOLD"
                     ELSE "AVOID")

\* C28 witness: at low risk a roi of exactly 50 gave BUY, a roi of exactly 20 gave
\* HOLD on another call, seen here for the roi of 20
C28_Witness ==
    \E t \in DOMAIN task :
        /\ task[t].op = "analyze_opportunity"
        /\ task[t].opportunity[1].cost = 2000
        /\ task[t].opportunity[1].expected_revenue = 2400
        /\ task[t].result[1].risk_level = "low"
        /\ task[t].result[1].recommendation = "HOLD"

\* C29: confidence is 0.7, plus 0.2 if roi > 30 or minus 0.2 if roi < 5, plus 0.2,
\* 0.1, 0, -0.1, -0.2 for very_low, low, medium, high, very_high, clamped into
\* [0.1, 0.95] (computed in floats); it always lies in [0.1, 0.95].
C29_ConfidenceClamped ==
    \A t \in DOMAIN task :
        task[t].op = "analyze_opportunity" =>
            LET o == task[t].opportunity[1]
                level == task[t].result[1].risk_level
                confidence == task[t].result[1].confidence
                gain100 == IF o.cost > 0 THEN (o.expected_revenue - o.cost) * 100 ELSE 0
                base == IF o.cost > 0 THEN o.cost ELSE 1
                by_roi == IF gain100 > 30 * base THEN 2000
                          ELSE IF gain100 < 5 * base THEN -2000 ELSE 0
                by_level == CASE level = "very_low"  -> 2000
                              [] level = "low"       -> 1000
                              [] level = "medium"    -> 0
                              [] level = "high"      -> -1000
                              [] level = "very_high" -> -2000
            IN  /\ NearDecimal(confidence,
                               Max(1000, Min(9500, 7000 + by_roi + by_level)))
                /\ FloatLeq(Hundredths[10], confidence)
                /\ FloatLeq(confidence, Hundredths[95])

\* C29 witness: roi > 30 at very_low risk, where 0.7 + 0.2 + 0.2 is clamped to 0.95
C29_Witness ==
    \E t \in DOMAIN task :
        /\ task[t].op = "analyze_opportunity"
        /\ task[t].result[1].risk_level = "very_low"
        /\ task[t].opportunity[1].expected_revenue = 3020
        /\ task[t].result[1].confidence = Hundredths[95]

-----------------------------------------------------------------------------
(* Spending ceilings over several transactions *)

\* The sum of the amounts of a list of transactions
RECURSIVE TotalAmount(_)
TotalAmount(transactions) ==
    IF transactions = <<>> THEN 0
    ELSE Head(transactions).amount + TotalAmount(Tail(transactions))

\* C24: the amounts of the transactions one agent executed within a day never sum to
\* more than the daily ceiling 1000.
C24_DailyAggregateCeiling ==
    TotalAmount(wallet.transactions) <= 1000

-----------------------------------------------------------------------------
(* Transaction history *)

\* C30: get_transaction_history(days) returns exactly the recorded transactions whose
\* timestamp is within the last `days` days, oldest first by timestamp, also when
\* transactions finished settlement in another order than they were created.
C30_HistoryOldestFirst ==
    [][\A t \in DOMAIN task :
          (/\ calls' = calls + 1
           /\ task'[t].call = calls'
           /\ task'[t].op = "get_transaction_history")
          => LET history == task'[t].result[1]
                 cutoff == now - task'[t].amount * SecondsPerDay * TicksPerSecond
                 within == {i \in 1..Len(wallet.transactions) :
                               wallet.transactions[i].timestamp >= cutoff}
             IN  /\ Len(history) = Cardinality(within)
                 /\ {history[i] : i \in 1..Len(history)}
                        = {wallet.transactions[i] : i \in within}
                 /\ \A i, j \in 1..Len(history) :
                        i < j => history[i].timestamp <= history[j].timestamp]_vars

-----------------------------------------------------------------------------
(* Asset ledger: skills/commerce_manager/asset_ledger.py.  One ledger entry is kept
   in `state` (NoLedger before the first one is built) and the outcome of the latest
   call in `agent`.  Amounts and revenues are whole currency units. *)

NoLedger == <<>>
\* Optional[Decimal] and Optional[float] values: None, or the value
Absent == <<>>
Present(x) == <<x>>

\* ReasoningContext(...): the fields that are hashed
ReasoningContext(trend_id, projected_roi, justification) ==
    [trend_id |-> trend_id, trend_topic |-> "Test", projected_roi |-> projected_roi,
     confidence_score |-> 90, justification |-> justification,
     agent_id |-> "agent-001"]

\* AssetLedger(...): amount is validated to be positive (Field(gt=0)), the P&L fields
\* default to None
AssetLedger(tx_id, amount, reasoning_hash, reasoning_context) ==
    [tx_id |-> tx_id, amount |-> amount, reasoning_hash |-> reasoning_hash,
     reasoning_context |-> reasoning_context, actual_revenue |-> Absent]

\* A call on the ledger that returned value / raised the exception
LedgerReturned(op, value) == [op |-> op, raised |-> None, value |-> <<value>>]
LedgerRaised(op, exception) == [op |-> op, raised |-> exception, value |-> <<>>]

\* ReasoningContext.to_hash: "self.model_dump_json(sort_keys=True)" passes a keyword
\* that pydantic's BaseModel.model_dump_json does not have (its parameters are
\* keyword-only and there is no **kwargs), so the call raises TypeError before anything
\* is serialized or hashed; pydantic 1 has no model_dump_json at all
to_hash(context) == LedgerRaised("to_hash", "TypeError")

\* AssetLedger.calculate_roi that tests the revenue for truth, as to_pnl_report does
calculate_roi_truthy(entry) ==
    IF entry.actual_revenue \notin {Absent, Present(0)} /\ entry.amount > 0
    THEN Present(Float(((entry.actual_revenue[1] - entry.amount) * FloatScale)
                       \div entry.amount))
    ELSE Absent

\* AssetLedger.calculate_roi: float((actual_revenue - amount) / amount).  The Decimal
\* quotient is exact for the amounts used here (they divide FloatScale), and float()
\* takes the binary64 value nearest to it
calculate_roi(entry) ==
    IF entry.actual_revenue # Absent /\ entry.amount > 0
    THEN Present(Float(((entry.actual_revenue[1] - entry.amount) * FloatScale)
                       \div entry.amount))
    ELSE Absent

\* AssetLedger.verify_reasoning_hash: the exception of to_hash propagates
VerifyOutcome(entry, expected_hash) ==
    IF expected_hash.raised # None
    THEN LedgerRaised("verify_reasoning_hash", expected_hash.raised)
    ELSE LedgerReturned("verify_reasoning_hash",
                        entry.reasoning_hash = expected_hash.value[1])
verify_reasoning_hash(entry) == VerifyOutcome(entry, to_hash(entry.reasoning_context))

\* create_ledger_entry: builds the context and hashes it before the entry is built,
\* so the exception of to_hash leaves the caller without an entry
CreateOutcome(tx_id, amount, reasoning, reasoning_hash) ==
    IF reasoning_hash.raised # None
    THEN LedgerRaised("create_ledger_entry", reasoning_hash.raised)
    ELSE LedgerReturned("create_ledger_entry",
                        AssetLedger(tx_id, amount, reasoning_hash.value[1], reasoning))
create_ledger_entry(tx_id, amount, trend_id, projected_roi, justification) ==
    CreateOutcome(tx_id, amount,
                  ReasoningContext(trend_id, projected_roi, justification),
                  to_hash(ReasoningContext(trend_id, projected_roi, justification)))

LedgerAmounts        == {4, 10}
LedgerRevenues       == {0, 3, 10, 25}
LedgerTrends         == {"trend-001", "trend-002"}
LedgerJustifications == {"Test", "High ROI"}
LedgerHashes         == {"abc", "def"}
\* projected_roi in hundredths
LedgerProjectedRois  == {150, 200}

\* entry = AssetLedger(tx_id=..., amount=..., reasoning_hash=..., reasoning_context=...)
NewAssetLedger(amount, trend_id, justification, reasoning_hash) ==
    /\ state' = AssetLedger("tx-001", amount, reasoning_hash,
                            ReasoningContext(trend_id, 200, justification))
    /\ agent' = LedgerReturned("AssetLedger", state')
    /\ UNCHANGED <<ksVars, now, commerceVars>>

\* entry = create_ledger_entry(...)
CreateLedgerEntry(amount, trend_id, projected_roi, justification) ==
    /\ agent' = create_ledger_entry("tx-001", amount, trend_id, projected_roi,
                                    justification)
    /\ state' = IF agent'.raised = None THEN agent'.value[1] ELSE state
    /\ UNCHANGED <<ksVars, now, commerceVars>>

\* entry.actual_revenue = revenue
RecordActualRevenue(revenue) ==
    /\ state # NoLedger
    /\ state' = [state EXCEPT !.actual_revenue = Present(revenue)]
    /\ agent' = LedgerReturned("actual_revenue", revenue)
    /\ UNCHANGED <<ksVars, now, commerceVars>>

\* entry.reasoning_context.justification = justification
ChangeJustification(justification) ==
    /\ state # NoLedger
    /\ state' = [state EXCEPT !.reasoning_context.justification = justification]
    /\ agent' = LedgerReturned("justification", justification)
    /\ UNCHANGED <<ksVars, now, commerceVars>>

\* entry.reasoning_hash = reasoning_hash
ChangeReasoningHash(reasoning_hash) ==
    /\ state # NoLedger
    /\ state' = [state EXCEPT !.reasoning_hash = reasoning_hash]
    /\ agent' = LedgerReturned("reasoning_hash", reasoning_hash)
    /\ UNCHANGED <<ksVars, now, commerceVars>>

\* entry.calculate_roi()
CalculateRoi ==
    /\ state # NoLedger
    /\ agent' = LedgerReturned("calculate_roi", calculate_roi(state))
    /\ UNCHANGED <<ksVars, now, commerceVars, state>>

\* entry.verify_reasoning_hash()
VerifyReasoningHash ==
    /\ state # NoLedger
    /\ agent' = verify_reasoning_hash(state)
    /\ UNCHANGED <<ksVars, now, commerceVars, state>>

\* context.to_hash()
ToHash(trend_id, projected_roi, justification) ==
    /\ agent' = to_hash(ReasoningContext(trend_id, projected_roi, justification))
    /\ UNCHANGED <<ksVars, now, commerceVars, state>>

InitLedger ==
    /\ InitKill
    /\ InitCommerceIdle
    /\ state = NoLedger
    /\ agent = LedgerReturned("none", None)

NextLedger ==
    \/ \E a \in LedgerAmounts, i \in LedgerTrends, j \in LedgerJustifications,
          h \in LedgerHashes : NewAssetLedger(a, i, j, h)
    \/ \E a \in LedgerAmounts, i \in LedgerTrends, p \in LedgerProjectedRois,
          j \in LedgerJustifications : CreateLedgerEntry(a, i, p, j)
    \/ \E r \in LedgerRevenues : RecordActualRevenue(r)
    \/ \E j \in LedgerJustifications : ChangeJustification(j)
    \/ \E h \in LedgerHashes : ChangeReasoningHash(h)
    \/ CalculateRoi
    \/ VerifyReasoningHash
    \/ \E i \in LedgerTrends, p \in LedgerProjectedRois, j \in LedgerJustifications :
          ToHash(i, p, j)

SpecLedger == InitLedger /\ [][NextLedger]_vars

\* C31: calculate_roi returns (actual_revenue - amount) / amount once actual_revenue
\* has been recorded (1.5 for amount 10 and revenue 25, -1.0 for a recorded revenue of
\* 0), and None, never a number, as long as it has not been recorded.
C31_RoiOnceRevenueRecorded ==
    (state # NoLedger /\ agent.op = "calculate_roi")
    => LET roi == agent.value[1]
       IN  /\ agent.raised = None
           /\ state.actual_revenue = Absent => roi = Absent
           /\ state.actual_revenue # Absent
              => /\ roi # Absent
                 /\ roi[1][1] * state.amount
                        = (state.actual_revenue[1] - state.amount) * FloatScale
                 /\ NearDecimal(roi[1], roi[1][1])
           /\ (state.amount = 10 /\ state.actual_revenue = Present(25))
              => roi = Present(<<15000, 0>>)

C31_Witness ==
    /\ state # NoLedger
    /\ agent.op = "calculate_roi"
    /\ state.amount = 10
    /\ state.actual_revenue = Present(3)
    /\ agent.value[1] # Absent
    /\ agent.value[1][1][1] = -7000
    /\ agent.value[1][1][2] # 0

\* C32: reasoning-hash round trip.  create_ledger_entry returns an entry, and for
\* that entry verify_reasoning_hash returns true as long as the reasoning context and
\* the stored hash are unchanged and false after either was changed; to_hash returns
\* a hash, the same one for the same context.
C32_ReasoningHashRoundTrip ==
    /\ agent.op \in {"create_ledger_entry", "to_hash", "verify_reasoning_hash"}
       => agent.raised = None
    /\ agent.op = "verify_reasoning_hash"
       => agent.value[1] \in BOOLEAN

-----------------------------------------------------------------------------
(* Reservations *)

\* C33: funds locked for a transaction can be spent by it.  When lock_funds(a) has
\* succeeded, its reservation is the only one, and the next call,
\* wallet.execute_transaction of a transaction of the same amount a, settles with no
\* other call started in between, the settlement succeeds and consumes the reservation.
C33_LockedFundsSpendable ==
    [][\A t, u \in DOMAIN task :
          (/\ task[u].op = "lock_funds"
           /\ task[u].pc = "idle"
           /\ task[u].result = <<TRUE>>
           /\ task[u].amount > 0
           /\ wallet.locked_funds = task[u].amount
           /\ task[t].op = "wallet.execute_transaction"
           /\ task[t].pc = "sleep"
           /\ task[t].amount = task[u].amount
           /\ task[t].call = task[u].call + 1
           /\ calls = task[t].call
           /\ task'[t].pc = "idle")
          => /\ task'[t].result = <<TRUE>>
             /\ wallet'.locked_funds = 0
             /\ wallet'.balance = wallet.balance - task[t].amount]_vars

-----------------------------------------------------------------------------
(* Ledger conservation *)

\* The sum of the category buckets of budget.categories
RECURSIVE BucketTotal(_)
BucketTotal(categories) ==
    IF DOMAIN categories = {} THEN 0
    ELSE categories[CHOOSE k \in DOMAIN categories : TRUE]
         + BucketTotal([x \in DOMAIN categories
                              \ {CHOOSE k \in DOMAIN categories : TRUE}
                          |-> categories[x]])

\* C34: ledger conservation.  In every state, after any sequence and interleaving of
\* execute_transaction calls, wallet.balance plus the sum of the amounts in
\* wallet.transactions is what it was at construction (the initial balance), and
\* budget.spent equals that sum and equals the sum of the category buckets.
C34_LedgerConservation ==
    /\ [](/\ budget.spent = TotalAmount(wallet.transactions)
          /\ budget.spent = BucketTotal(budget.categories))
    /\ [][wallet'.balance + TotalAmount(wallet'.transactions)
              = wallet.balance + TotalAmount(wallet.transactions)]_vars

\* C34 witness: three transactions were executed, two of them in one category
C34_Witness ==
    /\ Len(wallet.transactions) = 3
    /\ wallet.balance = 600
    /\ budget.spent = 600
    /\ \E k \in DOMAIN budget.categories : budget.categories[k] = 200
    /\ \E k \in DOMAIN budget.categories : budget.categories[k] = 400
    /\ \A t \in DOMAIN task : task[t].pc = "idle"

\* C35: no step of execute_transaction increases wallet.balance, decreases
\* budget.spent or increases budget.remaining, whatever the amount argument is
\* (negative amounts included).
C35_SpendingMonotone ==
    [][/\ wallet'.balance <= wallet.balance
       /\ budget'.spent >= budget.spent
       /\ budget'.remaining <= budget.remaining]_vars

-----------------------------------------------------------------------------
(* The gates of make_economic_decision *)

\* C36: in make_economic_decision the risk-level gate and the confidence gate are
\* implied by the recommendation gate: a recommendation of STRONG_BUY or BUY comes with
\* a level of very_low, low or medium and a confidence above 0.6, so the decision is
\* PROCEED iff the recommendation is STRONG_BUY or BUY and cost <= budget.remaining.
C36_RecommendationGateDecides ==
    [][\A t \in DOMAIN task :
          Decides(t) =>
              /\ task'[t].result[1].recommendation \in {"STRONG_BUY", "BUY"}
                 => /\ task'[t].result[1].risk_level \in {"very_low", "low", "medium"}
                    /\ FloatLess(Hundredths[60], task'[t].result[1].confidence)
              /\ task'[t].result[1].decision = "PROCEED"
                 <=> /\ task'[t].result[1].recommendation \in {"STRONG_BUY", "BUY"}
                     /\ task'[t].opportunity[1].cost <= budget.remaining]_vars

\* C36 witness: a BUY at medium risk with the lowest confidence a BUY can have (0.7)
\* was taken, and an AVOID at high risk with a high ROI was declined
C36_Witness ==
    \E t, u \in DOMAIN task :
        /\ task[t].op = "make_economic_decision"
        /\ task[t].result[1].recommendation = "BUY"
        /\ task[t].result[1].risk_level = "medium"
        /\ NearDecimal(task[t].result[1].confidence, 7000)
        /\ task[t].result[1].decision = "PROCEED"
        /\ task[u].op = "make_economic_decision"
        /\ task[u].opportunity[1].expected_revenue = 700
        /\ task[u].opportunity[1].cost = 100
        /\ task[u].result[1].risk_level = "high"
        /\ task[u].result[1].recommendation = "AVOID"
        /\ task[u].result[1].decision = "DECLINE"

-----------------------------------------------------------------------------
(* Transaction identifiers *)

\* C37: every two transactions that execute_transaction created for the agent carry
\* distinct identifiers, also when they were created within the same clock second.
C37_DistinctTransactionIds ==
    /\ \A i, j \in 1..Len(wallet.transactions) :
           i # j => wallet.transactions[i].id # wallet.transactions[j].id
    /\ \A t, u \in DOMAIN task :
           (t # u /\ task[t].transaction # <<>> /\ task[u].transaction # <<>>)
           => task[t].transaction[1].id # task[u].transaction[1].id

-----------------------------------------------------------------------------
(* The pause flag *)

\* C38: in every state reachable through KillSwitchProtocol operations the pause flag
\* is consistent: is_paused is true iff state is emergency_halt; when state is
\* emergency_halt, reason, details and paused_at are all set; while state is active all
\* three are unset.
C38_PauseFlagConsistent ==
    /\ pause_flag.is_paused <=> pause_flag.state = "emergency_halt"
    /\ pause_flag.state = "emergency_halt" =>
          /\ pause_flag.reason \in PanicReason
          /\ pause_flag.details \in HaltDetails
          /\ pause_flag.paused_at # NoTime
    /\ pause_flag.state = "active" =>
          /\ pause_flag.reason = None
          /\ pause_flag.details = None
          /\ pause_flag.paused_at = NoTime

\* C38 witness: halted for a security breach, and checks were called after the halt
C38_Witness ==
    /\ pause_flag.is_paused
    /\ pause_flag.state = "emergency_halt"
    /\ pause_flag.reason = "security_breach"
    /\ pause_flag.details = "manual stop"
    /\ pause_flag.paused_at = Time(1)
    /\ now = MaxClock
    /\ ks_out.op = "check_market_crash"
    /\ ~ks_out.raised

\* C39: the recorded halt is stable.  Once the state is emergency_halt, no later call,
\* not even a trigger_halt with another reason (which still raises), changes the
\* recorded reason, details or halt timestamp.
C39_RecordedHaltStable ==
    [][pause_flag.state = "emergency_halt"
       => /\ pause_flag'.reason = pause_flag.reason
          /\ pause_flag'.details = pause_flag.details
          /\ pause_flag'.paused_at = pause_flag.paused_at]_vars

====
